---- MODULE Spec2Model ----
(***************************************************************************)
(* A model of the `grid` crate: the dense buffer grid (GridBuf), the 2D    *)
(* array grid, views into a root grid, whole-grid iteration and the bulk   *)
(* fill operation.  usize is modelled as an unsigned word of UsizeBits     *)
(* bits; an Option<T> is modelled as a set with at most one element        *)
(* ({} is None, {v} is Some(v)).                                           *)
(***************************************************************************)
EXTENDS Integers, Sequences, FiniteSets, TLC

(***************************************************************************)
(* Bounds of the model.                                                    *)
(***************************************************************************)
UsizeBits == 4          \* width of the modelled usize word
MaxW == 2               \* largest root grid width explored by the cell operations
MaxH == 2               \* largest root grid height explored by the cell operations
MaxArg == 2             \* largest "ordinary" coordinate argument of a cell operation
MaxOps == 2             \* number of cell operations explored per run
MaxDepth == 3           \* deepest nesting of views explored

(***************************************************************************)
(* The grid of the crate's test: 3 x 3, holding 0, 1, ..., 8.              *)
(***************************************************************************)
TestW == 3
TestH == 3

(***************************************************************************)
(* The grid of the crate documentation's first example: 3 x 2.             *)
(***************************************************************************)
DocW == 3
DocH == 2

UsizeMax == 2 ^ UsizeBits - 1
UsizeHalf == 2 ^ (UsizeBits - 1)

\* coordinate arguments: the ordinary ones and the largest usize
Args == (0 .. MaxArg) \cup {UsizeMax}
\* values written by the harness (the initial cells hold 0, 1, 2, ...)
Vals == {9, 10}
Kinds == {"buf", "arr"}
\* overflow checks on (debug profile) or off (release profile)
Builds == {"debug", "release"}

VARIABLES
    build,      \* the build profile of the program
    grid,       \* the root grid: [kind, width, height, store]
    view,       \* the view held by the harness: [live, mut, x, y, w, h]
    depth,      \* how many view calls produced `view`
    offs,       \* the view asked for: the offsets requested along the chain of
                \* view calls, summed, and the size requested last
    call,       \* the last operation called and its arguments
    ret,        \* what the last operation returned: [panicked, val]
    prev,       \* the root grid as it was before the last operation
    nops,       \* number of cell operations performed
    done,       \* the run has ended: a call produced no grid or view, or a view was used
    it,         \* the whole-grid iterator: its cursor [x, y]
    out         \* the items the iterator has yielded, in order

vars == <<build, grid, view, depth, offs, call, ret, prev, nops, done, it, out>>
viewVars == <<view, depth, offs>>
iterVars == <<it, out>>

(***************************************************************************)
(* Machine arithmetic on usize.                                            *)
(***************************************************************************)
checked_mul(a, b) == IF a * b <= UsizeMax THEN {a * b} ELSE {}
checked_add(a, b) == IF a + b <= UsizeMax THEN {a + b} ELSE {}
wrapping_add(a, b) == (a + b) % (UsizeMax + 1)

\* slice.get(i) on a sequence: the (0-based) element, if any
slice_get(s, i) == IF i < Len(s) THEN {s[i + 1]} ELSE {}

\* the store of a freshly enumerated grid: cell k holds k (row-major)
Iota(n) == [k \in 1 .. n |-> k - 1]

Returned(v) == [panicked |-> FALSE, val |-> v]
Panicked == [panicked |-> TRUE, val |-> {}]
\* a call: the operation, its coordinates, the value written, and (for a view
\* call) the size asked for and whether the rectangle lies inside the receiver
CallOf(op, x, y, v) == [op |-> op, x |-> x, y |-> y, w |-> 0, h |-> 0, v |-> v, fits |-> FALSE]
NoCall == CallOf("none", 0, 0, 0)
\* GridIter::new
GridIter_new == [x |-> 0, y |-> 0]
NoOffs == [x |-> 0, y |-> 0, w |-> 0, h |-> 0]
NoView == [live |-> FALSE, mut |-> FALSE, x |-> 0, y |-> 0, w |-> 0, h |-> 0]

(***************************************************************************)
(* GridBuf: get / get_mut.  get_mut yields the slot (0-based store index)  *)
(* the returned reference points to.                                       *)
(***************************************************************************)
GridBuf_get(g, x, y) ==
    LET ym == checked_mul(y, g.width)
        i  == UNION {checked_add(m, x) : m \in ym}
    IN  UNION {slice_get(g.store, k) : k \in i}

\* a get_mut that indexes the store column-major
GridBuf_get_mut_transposed(g, x, y) ==
    LET xm == checked_mul(x, g.width)
        i  == UNION {checked_add(m, y) : m \in xm}
    IN  {k \in i : k < Len(g.store)}

GridBuf_get_mut(g, x, y) ==
    LET ym == checked_mul(y, g.width)
        i  == UNION {checked_add(m, x) : m \in ym}
    IN  {k \in i : k < Len(g.store)}

(***************************************************************************)
(* [[T; W]; H]: get / get_mut.  Row y of the array is the segment          *)
(* store[y*W .. y*W+W) of the flattened store.                             *)
(***************************************************************************)
Array_get(g, x, y) ==
    IF x < g.width /\ y < g.height THEN {g.store[y * g.width + x + 1]} ELSE {}

Array_get_mut(g, x, y) ==
    IF x < g.width /\ y < g.height THEN {y * g.width + x} ELSE {}

\* dispatch on the implementor of Grid / GridMut
Grid_get(g, x, y) ==
    IF g.kind = "buf" THEN GridBuf_get(g, x, y) ELSE Array_get(g, x, y)

GridMut_get_mut(g, x, y) ==
    IF g.kind = "buf" THEN GridBuf_get_mut(g, x, y) ELSE Array_get_mut(g, x, y)

\* std::mem::replace through a slot
Replace(g, k, v) == [g EXCEPT !.store = [@ EXCEPT ![k + 1] = v]]

\* GridMut::set: get_mut(x, y).map(|curr| mem::replace(curr, value))
GridMut_set(g, x, y, v) ==
    LET slot == GridMut_get_mut(g, x, y)
    IN  [grid |-> IF slot = {} THEN g ELSE Replace(g, CHOOSE k \in slot : TRUE, v),
         ret  |-> {g.store[k + 1] : k \in slot}]

(***************************************************************************)
(* Root grids the harness starts from: every shape up to MaxW x MaxH,      *)
(* built by with_store from the buffer 0, 1, 2, ...                        *)
(***************************************************************************)
RootGrid(k, w, h) == [kind |-> k, width |-> w, height |-> h, store |-> Iota(w * h)]

Init ==
    /\ build \in Builds
    /\ \E k \in Kinds, w \in 0 .. MaxW, h \in 0 .. MaxH : grid = RootGrid(k, w, h)
    /\ view = NoView /\ depth = 0 /\ offs = NoOffs
    /\ call = NoCall
    /\ ret = Returned({})
    /\ prev = grid
    /\ nops = 0
    /\ done = FALSE
    /\ it = GridIter_new /\ out = <<>>

(***************************************************************************)
(* Cell operations on the root grid.                                       *)
(***************************************************************************)
Get(x, y) ==
    /\ nops < MaxOps
    /\ call' = CallOf("get", x, y, 0)
    /\ ret' = Returned(Grid_get(grid, x, y))
    /\ prev' = grid
    /\ nops' = nops + 1
    /\ UNCHANGED <<build, grid, viewVars, done, iterVars>>

GetMut(x, y) ==
    /\ nops < MaxOps
    /\ call' = CallOf("get_mut", x, y, 0)
    /\ ret' = Returned({grid.store[k + 1] : k \in GridMut_get_mut(grid, x, y)})
    /\ prev' = grid
    /\ nops' = nops + 1
    /\ UNCHANGED <<build, grid, viewVars, done, iterVars>>

Set(x, y, v) ==
    /\ nops < MaxOps
    /\ call' = CallOf("set", x, y, v)
    /\ grid' = GridMut_set(grid, x, y, v).grid
    /\ ret' = Returned(GridMut_set(grid, x, y, v).ret)
    /\ prev' = grid
    /\ nops' = nops + 1
    /\ UNCHANGED <<build, viewVars, done, iterVars>>

Next ==
    \/ \E x \in Args, y \in Args : Get(x, y)
    \/ \E x \in Args, y \in Args : GetMut(x, y)
    \/ \E x \in Args, y \in Args, v \in Vals : Set(x, y, v)

Spec == Init /\ [][Next]_vars

(***************************************************************************)
(* Views.  `a + b` on usize panics on overflow when overflow checks are    *)
(* on and wraps around when they are off.                                  *)
(***************************************************************************)
Plus(bld, a, b) ==
    IF a + b > UsizeMax /\ bld = "debug"
    THEN [panicked |-> TRUE, val |-> 0]
    ELSE [panicked |-> FALSE, val |-> wrapping_add(a, b)]

View_new(x, y, w, h) == [live |-> TRUE, mut |-> FALSE, x |-> x, y |-> y, w |-> w, h |-> h]

\* Grid::try_view, the provided method, on a root grid (root_x() = root_y() = 0)
Grid_try_view(bld, g, x, y, w, h) ==
    LET xw == Plus(bld, x, w)
        yh == Plus(bld, y, h)
    IN  IF xw.panicked THEN Panicked
        ELSE IF ~(xw.val <= g.width) THEN Returned({})
        ELSE IF yh.panicked THEN Panicked
        ELSE IF ~(yh.val <= g.height) THEN Returned({})
        ELSE Returned({View_new(Plus(bld, 0, x).val, Plus(bld, 0, y).val, w, h)})

\* GridMut::try_view_mut, the provided method, on a root grid
GridMut_try_view_mut(bld, g, x, y, w, h) ==
    LET xw == Plus(bld, x, w)
        yh == Plus(bld, y, h)
    IN  IF xw.panicked THEN Panicked
        ELSE IF ~(xw.val <= g.width) THEN Returned({})
        ELSE IF yh.panicked THEN Panicked
        ELSE IF ~(yh.val <= g.height) THEN Returned({})
        ELSE Returned({View_new(Plus(bld, 0, x).val, Plus(bld, 0, y).val, w, h)})

\* a try_view of a view that keeps the requested offset relative to the parent
View_try_view_relative(bld, v, x, y, w, h) ==
    LET xw == Plus(bld, x, w)
        yh == Plus(bld, y, h)
    IN  IF xw.panicked THEN Panicked
        ELSE IF ~(xw.val <= v.w) THEN Returned({})
        ELSE IF yh.panicked THEN Panicked
        ELSE IF ~(yh.val <= v.h) THEN Returned({})
        ELSE Returned({View_new(x, y, w, h)})

\* a try_view of a view that grants every rectangle
View_try_view_unvalidated(bld, v, x, y, w, h) ==
    LET nx == Plus(bld, v.x, x)
        ny == Plus(bld, v.y, y)
    IN  IF nx.panicked \/ ny.panicked THEN Panicked
        ELSE Returned({View_new(nx.val, ny.val, w, h)})

\* View::try_view (the same for View<&G> and View<&mut G>)
View_try_view(bld, v, x, y, w, h) ==
    LET xw == Plus(bld, x, w)
        yh == Plus(bld, y, h)
        nx == Plus(bld, v.x, x)
        ny == Plus(bld, v.y, y)
    IN  IF xw.panicked THEN Panicked
        ELSE IF ~(xw.val <= v.w) THEN Returned({})
        ELSE IF yh.panicked THEN Panicked
        ELSE IF ~(yh.val <= v.h) THEN Returned({})
        ELSE IF nx.panicked \/ ny.panicked THEN Panicked
        ELSE Returned({View_new(nx.val, ny.val, w, h)})

\* View::try_view_mut
View_try_view_mut(bld, v, x, y, w, h) ==
    LET xw == Plus(bld, x, w)
        yh == Plus(bld, y, h)
        nx == Plus(bld, v.x, x)
        ny == Plus(bld, v.y, y)
    IN  IF xw.panicked THEN Panicked
        ELSE IF ~(xw.val <= v.w) THEN Returned({})
        ELSE IF yh.panicked THEN Panicked
        ELSE IF ~(yh.val <= v.h) THEN Returned({})
        ELSE IF nx.panicked \/ ny.panicked THEN Panicked
        ELSE Returned({View_new(nx.val, ny.val, w, h)})

\* Option::expect
Expect(r) == IF r.panicked \/ r.val = {} THEN Panicked ELSE r

\* View::get: the bounds check against the view, then the root's get
View_get(bld, g, v, x, y) ==
    IF x < v.w /\ y < v.h
    THEN LET rx == Plus(bld, v.x, x)
             ry == Plus(bld, v.y, y)
         IN  IF rx.panicked \/ ry.panicked THEN Panicked
             ELSE Returned(Grid_get(g, rx.val, ry.val))
    ELSE Returned({})

(***************************************************************************)
(* Raw rows.  A slice of the store is [off, len]: the cells                *)
(* store[off .. off + len) (0-based).                                      *)
(***************************************************************************)
Slice(off, len) == [off |-> off, len |-> len]

\* slice.get(a..b) / slice.get_mut(a..b)
slice_range(s, a, b) ==
    IF a <= b /\ b <= s.len THEN {Slice(s.off + a, b - a)} ELSE {}

\* GridBuf::row_slice_mut
GridBuf_row_slice_mut(bld, g, y) ==
    LET ym == checked_mul(y, g.width)
        e  == UNION {IF Plus(bld, i, g.width).panicked THEN {"panic"} ELSE {} : i \in ym}
    IN  IF e # {} THEN Panicked
        ELSE Returned(UNION {slice_range(Slice(0, Len(g.store)), i,
                                         Plus(bld, i, g.width).val) : i \in ym})

\* <[[T; W]; H] as GridMut>::row_slice_mut
Array_row_slice_mut(g, y) ==
    Returned(IF y < g.height THEN {Slice(y * g.width, g.width)} ELSE {})

\* an implementor may decline to give raw rows (row_slice and row_slice_mut
\* return None `if it is not able to do so`): a grid record with a field
\* `cells` stands for one that does, whatever its storage
Declines(g) == "cells" \in DOMAIN g
Declining(g) ==
    [kind |-> g.kind, width |-> g.width, height |-> g.height, store |-> g.store,
     cells |-> TRUE]
Offering(g) == [kind |-> g.kind, width |-> g.width, height |-> g.height, store |-> g.store]

GridMut_row_slice_mut(bld, g, y) ==
    IF Declines(g) THEN Returned({})
    ELSE IF g.kind = "buf" THEN GridBuf_row_slice_mut(bld, g, y)
    ELSE Array_row_slice_mut(g, y)

\* View::row_slice_mut
View_row_slice_mut(bld, g, v, y) ==
    IF y < v.h
    THEN LET ry == Plus(bld, v.y, y)
             row == GridMut_row_slice_mut(bld, g, ry.val)
             xe == Plus(bld, v.x, v.w)
         IN  IF ry.panicked \/ row.panicked THEN Panicked
             ELSE IF row.val = {} THEN Returned({})
             ELSE IF xe.panicked THEN Panicked
             ELSE Returned(UNION {slice_range(s, v.x, xe.val) : s \in row.val})
    ELSE Returned({})

\* <View<&G> as Grid>::row_slice: the same expression as row_slice_mut
View_row_slice(bld, g, v, y) == View_row_slice_mut(bld, g, v, y)

\* View::get_mut: the slot of the root the reference points to
View_get_mut(bld, g, v, x, y) ==
    IF x < v.w /\ y < v.h
    THEN LET rx == Plus(bld, v.x, x)
             ry == Plus(bld, v.y, y)
         IN  IF rx.panicked \/ ry.panicked THEN Panicked
             ELSE Returned(GridMut_get_mut(g, rx.val, ry.val))
    ELSE Returned({})

(***************************************************************************)
(* Operations on a grid given as the pair (root g, view v): the view when  *)
(* v.live, the root itself otherwise.                                      *)
(***************************************************************************)
Of_width(g, v) == IF v.live THEN v.w ELSE g.width
Of_height(g, v) == IF v.live THEN v.h ELSE g.height

Of_get_mut(bld, g, v, x, y) ==
    IF v.live THEN View_get_mut(bld, g, v, x, y) ELSE Returned(GridMut_get_mut(g, x, y))

Of_row_slice_mut(bld, g, v, y) ==
    IF v.live THEN View_row_slice_mut(bld, g, v, y) ELSE GridMut_row_slice_mut(bld, g, y)

\* the outcome of a mutating operation: the root afterwards, and whether it panicked
Outcome(g, p) == [grid |-> g, panicked |-> p]

\* slice.fill(value)
slice_fill(g, s, val) ==
    [g EXCEPT !.store = [k \in 1 .. Len(g.store) |->
                            IF s.off < k /\ k <= s.off + s.len THEN val ELSE g.store[k]]]

\* `*self.get_mut(x).unwrap() = value` for the columns xs of row y, in order
RECURSIVE AssignCells(_, _, _, _, _, _)
AssignCells(bld, g, v, y, xs, val) ==
    IF xs = <<>> THEN Outcome(g, FALSE)
    ELSE LET slot == Of_get_mut(bld, g, v, Head(xs), y)
         IN  IF slot.panicked \/ slot.val = {} THEN Outcome(g, TRUE)
             ELSE AssignCells(bld, Replace(g, CHOOSE k \in slot.val : TRUE, val),
                              v, y, Tail(xs), val)

\* Row::fill on row y: the raw row when there is one, else cell by cell
\* (columns 1 .. len-1 get clones, column 0 gets the value itself)
Row_fill(bld, g, v, y, val) ==
    LET len == Of_width(g, v)
        raw == Of_row_slice_mut(bld, g, v, y)
    IN  IF len = 0 THEN Outcome(g, FALSE)
        ELSE IF raw.panicked THEN Outcome(g, TRUE)
        ELSE IF raw.val # {} THEN Outcome(slice_fill(g, CHOOSE s \in raw.val : TRUE, val), FALSE)
        ELSE AssignCells(bld, g, v, y, [k \in 1 .. len |-> IF k = len THEN 0 ELSE k], val)

\* Row::fill for the rows ys, in order
RECURSIVE FillRows(_, _, _, _, _)
FillRows(bld, g, v, ys, val) ==
    IF ys = <<>> THEN Outcome(g, FALSE)
    ELSE LET o == Row_fill(bld, g, v, Head(ys), val)
         IN  IF o.panicked THEN o ELSE FillRows(bld, o.grid, v, Tail(ys), val)

\* GridMut::fill: rows 1 .. height-1 get clones, then row 0 gets the value
GridMut_fill(bld, g, v, val) ==
    LET h == Of_height(g, v)
    IN  FillRows(bld, g, v, [k \in 1 .. h |-> IF k = h THEN 0 ELSE k], val)

\* GridMut::set on the pair (root, view)
Of_set(bld, g, v, x, y, val) ==
    LET slot == Of_get_mut(bld, g, v, x, y)
    IN  IF slot.panicked THEN [grid |-> g, ret |-> Panicked]
        ELSE IF slot.val = {} THEN [grid |-> g, ret |-> Returned({})]
        ELSE [grid |-> Replace(g, CHOOSE k \in slot.val : TRUE, val),
              ret  |-> Returned({g.store[k + 1] : k \in slot.val})]

\* width() / height() of the receiver of a call: the view held, else the root
Recv_width == IF view.live THEN view.w ELSE grid.width
Recv_height == IF view.live THEN view.h ELSE grid.height

\* the <<offset, length>> pairs passed to the view calls along the x axis
\* and along the y axis: ordinary ones, and ones whose sum exceeds UsizeMax
XSpans ==
    {<<a, n>> : a \in 0 .. TestW - 1, n \in 0 .. TestW}
        \cup {<<UsizeMax, 1>>, <<UsizeMax, 2>>, <<1, UsizeMax>>}
YSpans ==
    {<<a, n>> : a \in 0 .. TestH - 2, n \in 1 .. TestH} \cup {<<UsizeMax, 1>>}

\* the root grids of the view runs: the test grid, as GridBuf and as array
InitView ==
    /\ build \in Builds
    /\ \E k \in Kinds : grid = RootGrid(k, TestW, TestH)
    /\ view = NoView /\ depth = 0 /\ offs = NoOffs
    /\ call = NoCall
    /\ ret = Returned({})
    /\ prev = grid
    /\ nops = 0
    /\ done = FALSE
    /\ it = GridIter_new /\ out = <<>>

\* the effect shared by the four view calls; r is what the call returned and
\* m whether the view produced is mutable
ViewCall(op, r, x, y, w, h, m) ==
    /\ call' = [CallOf(op, x, y, 0) EXCEPT
                   !.w = w, !.h = h,
                   !.fits = (x + w <= Recv_width /\ y + h <= Recv_height)]
    /\ ret' = r
    /\ IF r.panicked \/ r.val = {}
       THEN /\ done' = TRUE
            /\ UNCHANGED viewVars
       ELSE /\ done' = FALSE
            /\ view' = [(CHOOSE v \in r.val : TRUE) EXCEPT !.mut = m]
            /\ depth' = depth + 1
            /\ offs' = [x |-> wrapping_add(offs.x, x), y |-> wrapping_add(offs.y, y),
                        w |-> w, h |-> h]
    /\ prev' = grid
    /\ UNCHANGED <<build, grid, nops, iterVars>>

TryView(x, y, w, h) ==
    /\ ~done /\ depth < MaxDepth
    /\ ViewCall("try_view",
                IF view.live THEN View_try_view(build, view, x, y, w, h)
                             ELSE Grid_try_view(build, grid, x, y, w, h),
                x, y, w, h, FALSE)

\* Grid::view
ViewOf(x, y, w, h) ==
    /\ ~done /\ depth < MaxDepth
    /\ ViewCall("view",
                Expect(IF view.live THEN View_try_view(build, view, x, y, w, h)
                                    ELSE Grid_try_view(build, grid, x, y, w, h)),
                x, y, w, h, FALSE)

TryViewMut(x, y, w, h) ==
    /\ ~done /\ depth < MaxDepth
    /\ view.live => view.mut
    /\ ViewCall("try_view_mut",
                IF view.live THEN View_try_view_mut(build, view, x, y, w, h)
                             ELSE GridMut_try_view_mut(build, grid, x, y, w, h),
                x, y, w, h, TRUE)

\* GridMut::view_mut
ViewMutOf(x, y, w, h) ==
    /\ ~done /\ depth < MaxDepth
    /\ view.live => view.mut
    /\ ViewCall("view_mut",
                Expect(IF view.live THEN View_try_view_mut(build, view, x, y, w, h)
                                    ELSE GridMut_try_view_mut(build, grid, x, y, w, h)),
                x, y, w, h, TRUE)

\* get on the view held
ViewGet(x, y) ==
    /\ ~done
    /\ view.live
    /\ call' = CallOf("view_get", x, y, 0)
    /\ ret' = View_get(build, grid, view, x, y)
    /\ prev' = grid
    /\ done' = TRUE
    /\ UNCHANGED <<build, grid, viewVars, nops, iterVars>>

\* set through the mutable view held
ViewSet(x, y, v) ==
    /\ ~done
    /\ view.live /\ view.mut
    /\ call' = CallOf("view_set", x, y, v)
    /\ grid' = Of_set(build, grid, view, x, y, v).grid
    /\ ret' = Of_set(build, grid, view, x, y, v).ret
    /\ prev' = grid
    /\ done' = TRUE
    /\ UNCHANGED <<build, viewVars, nops, iterVars>>

\* fill through the mutable view held
ViewFill(v) ==
    /\ ~done
    /\ view.live /\ view.mut
    /\ call' = CallOf("view_fill", 0, 0, v)
    /\ grid' = GridMut_fill(build, grid, view, v).grid
    /\ ret' = IF GridMut_fill(build, grid, view, v).panicked THEN Panicked ELSE Returned({})
    /\ prev' = grid
    /\ done' = TRUE
    /\ UNCHANGED <<build, viewVars, nops, iterVars>>

\* row_slice on the view held
ViewRowSlice(y) ==
    /\ ~done
    /\ view.live
    /\ call' = CallOf("view_row_slice", 0, y, 0)
    /\ ret' = View_row_slice(build, grid, view, y)
    /\ prev' = grid
    /\ done' = TRUE
    /\ UNCHANGED <<build, grid, viewVars, nops, iterVars>>

\* row_slice_mut on the mutable view held
ViewRowSliceMut(y) ==
    /\ ~done
    /\ view.live /\ view.mut
    /\ call' = CallOf("view_row_slice_mut", 0, y, 0)
    /\ ret' = View_row_slice_mut(build, grid, view, y)
    /\ prev' = grid
    /\ done' = TRUE
    /\ UNCHANGED <<build, grid, viewVars, nops, iterVars>>

NextView ==
    \/ \E a \in XSpans, b \in YSpans : TryView(a[1], b[1], a[2], b[2])
    \/ \E a \in XSpans, b \in YSpans : ViewOf(a[1], b[1], a[2], b[2])
    \/ \E a \in XSpans, b \in YSpans : TryViewMut(a[1], b[1], a[2], b[2])
    \/ \E a \in XSpans, b \in YSpans : ViewMutOf(a[1], b[1], a[2], b[2])
    \/ \E x \in 0 .. TestW, y \in 0 .. TestH : ViewGet(x, y)
    \/ \E x \in 0 .. TestW, y \in 0 .. TestH : ViewSet(x, y, 9)
    \/ ViewFill(9)
    \/ \E y \in 0 .. TestH : ViewRowSlice(y)
    \/ \E y \in 0 .. TestH : ViewRowSliceMut(y)

SpecView == InitView /\ [][NextView]_vars

(***************************************************************************)
(* Construction of a GridBuf.  A constructor yields Returned({grid}) or    *)
(* panics.                                                                 *)
(***************************************************************************)
NoGrid == [kind |-> "none", width |-> 0, height |-> 0, store |-> <<>>]
GridBuf(width, height, store) ==
    [kind |-> "buf", width |-> width, height |-> height, store |-> store]

\* a with_store that multiplies without the overflow check
GridBuf_with_store_wrapping(width, height, store) ==
    IF (width * height) % (UsizeMax + 1) = Len(store)
    THEN Returned({GridBuf(width, height, store)})
    ELSE Panicked

\* GridBuf::with_store: assert_eq!(width.checked_mul(height), Some(store.len()))
GridBuf_with_store(width, height, store) ==
    IF checked_mul(width, height) = {Len(store)}
    THEN Returned({GridBuf(width, height, store)})
    ELSE Panicked

\* VecGrid::new_with, called with a generator that yields 0, 1, 2, ...
VecGrid_new_with(width, height) ==
    LET len == checked_mul(width, height)
    IN  IF len = {} THEN Panicked
        ELSE Returned({GridBuf(width, height, Iota(n)) : n \in len})

\* VecGrid::new: new_with(width, height, T::default)
VecGrid_new(width, height) ==
    LET len == checked_mul(width, height)
    IN  IF len = {} THEN Panicked
        ELSE Returned({GridBuf(width, height, [k \in 1 .. n |-> 0]) : n \in len})

\* Clone for GridBuf
GridBuf_clone(g) == GridBuf(g.width, g.height, g.store)

\* Deserialize for GridBuf: the three fields of the record, as they come
GridBuf_deserialize(width, height, store) == Returned({GridBuf(width, height, store)})

\* the widths / heights and the buffer lengths handed to the constructors
CtorDims == {0, DocH, TestW, UsizeHalf}
CtorLens == {0, DocW * DocH, TestW * TestH - 1, TestW * TestH}

InitCtor ==
    /\ build \in Builds
    /\ grid = NoGrid
    /\ view = NoView /\ depth = 0 /\ offs = NoOffs
    /\ call = NoCall
    /\ ret = Returned({})
    /\ prev = grid
    /\ nops = 0
    /\ done = FALSE
    /\ it = GridIter_new /\ out = <<>>

\* the effect shared by the constructors; r is what the constructor returned
Construct(r) ==
    /\ ret' = [r EXCEPT !.val = {}]
    /\ IF r.panicked
       THEN done' = TRUE /\ UNCHANGED grid
       ELSE done' = FALSE /\ grid' = CHOOSE g \in r.val : TRUE
    /\ prev' = grid
    /\ UNCHANGED <<build, viewVars, nops, iterVars>>

WithStore(w, h, n) ==
    /\ ~done /\ grid = NoGrid
    /\ call' = CallOf("with_store", w, h, n)
    /\ Construct(GridBuf_with_store(w, h, Iota(n)))

NewWith(w, h) ==
    /\ ~done /\ grid = NoGrid
    /\ call' = CallOf("new_with", w, h, 0)
    /\ Construct(VecGrid_new_with(w, h))

New(w, h) ==
    /\ ~done /\ grid = NoGrid
    /\ call' = CallOf("new", w, h, 0)
    /\ Construct(VecGrid_new(w, h))

Deserialize(w, h, n) ==
    /\ ~done /\ grid = NoGrid
    /\ call' = CallOf("deserialize", w, h, n)
    /\ Construct(GridBuf_deserialize(w, h, Iota(n)))

Clone ==
    /\ ~done /\ grid.kind = "buf" /\ call.op # "clone"
    /\ call' = CallOf("clone", 0, 0, 0)
    /\ Construct(Returned({GridBuf_clone(grid)}))

\* fill on the root grid
Fill(v) ==
    /\ ~done /\ nops < MaxOps
    /\ grid.kind \in Kinds
    /\ call' = CallOf("fill", 0, 0, v)
    /\ grid' = GridMut_fill(build, grid, NoView, v).grid
    /\ ret' = IF GridMut_fill(build, grid, NoView, v).panicked THEN Panicked ELSE Returned({})
    /\ done' = GridMut_fill(build, grid, NoView, v).panicked
    /\ prev' = grid
    /\ nops' = nops + 1
    /\ UNCHANGED <<build, viewVars, iterVars>>

NextCtor ==
    \/ \E w \in CtorDims, h \in CtorDims, n \in CtorLens : WithStore(w, h, n)
    \/ \E w \in CtorDims, h \in CtorDims : NewWith(w, h)
    \/ \E w \in CtorDims, h \in CtorDims : New(w, h)
    \/ \E w \in CtorDims, h \in CtorDims, n \in CtorLens : Deserialize(w, h, n)
    \/ Clone
    \/ \E x \in 0 .. 1, y \in 0 .. 1, v \in Vals : ~done /\ grid.kind = "buf" /\ Set(x, y, v)
    \/ \E v \in Vals : Fill(v)

SpecCtor == InitCtor /\ [][NextCtor]_vars

(***************************************************************************)
(* The whole-grid iterator over a root grid.                               *)
(***************************************************************************)
\* a next that wraps the cursor when x reaches the height
GridIter_next_wrap_at_height(g, i) ==
    LET val == Grid_get(g, i.x, i.y)
    IN  IF val = {} THEN [it |-> i, ret |-> {}]
        ELSE [it  |-> IF i.x + 1 = g.height THEN [x |-> 0, y |-> i.y + 1]
                                            ELSE [x |-> i.x + 1, y |-> i.y],
              ret |-> {<<v, i.x, i.y>> : v \in val}]

\* GridIter::next
GridIter_next(g, i) ==
    LET val == Grid_get(g, i.x, i.y)
    IN  IF val = {} THEN [it |-> i, ret |-> {}]
        ELSE [it  |-> IF i.x + 1 = g.width THEN [x |-> 0, y |-> i.y + 1]
                                           ELSE [x |-> i.x + 1, y |-> i.y],
              ret |-> {<<v, i.x, i.y>> : v \in val}]

\* a - b and a * b on usize: panic on overflow when overflow checks are on,
\* wrap around when they are off
Minus(bld, a, b) ==
    IF a < b /\ bld = "debug"
    THEN [panicked |-> TRUE, val |-> 0]
    ELSE [panicked |-> FALSE, val |-> (a - b) % (UsizeMax + 1)]
Times(bld, a, b) ==
    IF a * b > UsizeMax /\ bld = "debug"
    THEN [panicked |-> TRUE, val |-> 0]
    ELSE [panicked |-> FALSE, val |-> (a * b) % (UsizeMax + 1)]
saturating_sub(a, b) == IF a < b THEN 0 ELSE a - b

\* GridIter::len (size_hint and count return it too):
\* (h.saturating_sub(self.y + 1)) * w + (w - self.x)
GridIter_len(bld, g, i) ==
    LET w    == g.width
        h    == g.height
        y1   == Plus(bld, i.y, 1)
        rows == Times(bld, saturating_sub(h, y1.val), w)
        rest == Minus(bld, w, i.x)
        sum  == Plus(bld, rows.val, rest.val)
    IN  IF y1.panicked \/ rows.panicked \/ rest.panicked \/ sum.panicked
        THEN Panicked
        ELSE Returned({sum.val})

\* the shapes iterated: all up to MaxW x MaxH, the documentation's and the test's
IterShapes ==
    ((0 .. MaxW) \X (0 .. MaxH)) \cup {<<DocW, DocH>>, <<TestW, TestH>>}

InitIter ==
    /\ build \in Builds
    /\ \E k \in Kinds, sh \in IterShapes : grid = RootGrid(k, sh[1], sh[2])
    /\ view = NoView /\ depth = 0 /\ offs = NoOffs
    /\ call = NoCall
    /\ ret = Returned({})
    /\ prev = grid
    /\ nops = 0
    /\ done = FALSE
    /\ it = GridIter_new /\ out = <<>>

\* next() on the iterator; nops counts the calls
IterNext ==
    /\ nops < Len(grid.store) + MaxOps
    /\ call' = CallOf("next", 0, 0, 0)
    /\ it' = GridIter_next(grid, it).it
    /\ ret' = Returned(GridIter_next(grid, it).ret)
    /\ out' = IF GridIter_next(grid, it).ret = {} THEN out
              ELSE Append(out, CHOOSE item \in GridIter_next(grid, it).ret : TRUE)
    /\ prev' = grid
    /\ nops' = nops + 1
    /\ UNCHANGED <<build, grid, viewVars, done>>

\* len() / size_hint() / count() on the iterator, between two next() calls
IterLen ==
    /\ call.op # "len"
    /\ call' = CallOf("len", 0, 0, 0)
    /\ ret' = GridIter_len(build, grid, it)
    /\ prev' = grid
    /\ UNCHANGED <<build, grid, viewVars, nops, done, iterVars>>

NextIter == IterNext \/ IterLen

SpecIter == InitIter /\ [][NextIter]_vars

(***************************************************************************)
(* The element iterators of one row and of one column of a root grid.      *)
(* The cursor `it` is [of, x, y, r] for a RowIter and [of, x, y, b] for a  *)
(* ColIter; `out` lists what was yielded as <<end, index, value>>.          *)
(***************************************************************************)
\* RowIter::new(grid, y, r) / ColIter::new(grid, x, b)
RowIter_new(y, r) == [of |-> "row", x |-> 0, y |-> y, r |-> r]
ColIter_new(x, b) == [of |-> "col", x |-> x, y |-> 0, b |-> b]

\* <RowIter<&G> as Iterator>::next
RowIter_next(g, i) ==
    IF i.x < i.r
    THEN [it |-> [i EXCEPT !.x = i.x + 1], ret |-> Grid_get(g, i.x, i.y), at |-> i.x]
    ELSE [it |-> i, ret |-> {}, at |-> 0]

\* a next_back that reads the cell before stepping the end back
RowIter_next_back_post_decrement(g, i) ==
    IF i.x < i.r
    THEN [it |-> [i EXCEPT !.r = i.r - 1], ret |-> Grid_get(g, i.r, i.y), at |-> i.r]
    ELSE [it |-> i, ret |-> {}, at |-> 0]

\* <RowIter<&G> as DoubleEndedIterator>::next_back
RowIter_next_back(g, i) ==
    IF i.x < i.r
    THEN [it |-> [i EXCEPT !.r = i.r - 1], ret |-> Grid_get(g, i.r - 1, i.y), at |-> i.r - 1]
    ELSE [it |-> i, ret |-> {}, at |-> 0]

\* <RowIter<&G> as ExactSizeIterator>::len (size_hint and count return it)
RowIter_len(bld, i) == Minus(bld, i.r, i.x)

\* <ColIter<&G> as Iterator>::next
ColIter_next(g, i) ==
    IF i.y < i.b
    THEN [it |-> [i EXCEPT !.y = i.y + 1], ret |-> Grid_get(g, i.x, i.y), at |-> i.y]
    ELSE [it |-> i, ret |-> {}, at |-> 0]

\* <ColIter<&G> as DoubleEndedIterator>::next_back
ColIter_next_back(g, i) ==
    IF i.y < i.b
    THEN [it |-> [i EXCEPT !.b = i.b - 1], ret |-> Grid_get(g, i.x, i.b - 1), at |-> i.b - 1]
    ELSE [it |-> i, ret |-> {}, at |-> 0]

\* <ColIter<&G> as ExactSizeIterator>::len
ColIter_len(bld, i) == Minus(bld, i.b, i.y)

\* Col::iter on the column x of g (Col::len is the grid's height), and the
\* same construction for the row y
Col_iter(g, x) == ColIter_new(x, g.height)
Row_iter(g, y) == RowIter_new(y, g.width)

Line_next(g, i) == IF i.of = "row" THEN RowIter_next(g, i) ELSE ColIter_next(g, i)
Line_next_back(g, i) ==
    IF i.of = "row" THEN RowIter_next_back(g, i) ELSE ColIter_next_back(g, i)
Line_len(bld, i) == IF i.of = "row" THEN RowIter_len(bld, i) ELSE ColIter_len(bld, i)

InitLine ==
    /\ build \in Builds
    /\ \E k \in Kinds, sh \in IterShapes : grid = RootGrid(k, sh[1], sh[2])
    /\ view = NoView /\ depth = 0 /\ offs = NoOffs
    /\ call = NoCall
    /\ ret = Returned({})
    /\ prev = grid
    /\ nops = 0
    /\ done = FALSE
    /\ \/ \E y \in 0 .. grid.height - 1 : it = Row_iter(grid, y)
       \/ \E x \in 0 .. grid.width - 1 : it = Col_iter(grid, x)
    /\ out = <<>>

\* the effect shared by next() and next_back(); r is what the call produced
LineStep(end, r) ==
    /\ nops < (IF it.of = "row" THEN grid.width ELSE grid.height) + MaxOps
    /\ call' = CallOf(end, 0, 0, 0)
    /\ it' = r.it
    /\ ret' = Returned(r.ret)
    /\ out' = IF r.ret = {} THEN out
              ELSE Append(out, <<end, r.at, CHOOSE v \in r.ret : TRUE>>)
    /\ prev' = grid
    /\ nops' = nops + 1
    /\ UNCHANGED <<build, grid, viewVars, done>>

LineNext ==
    /\ ~done
    /\ LineStep("next", Line_next(grid, it))

LineNextBack ==
    /\ ~done
    /\ LineStep("next_back", Line_next_back(grid, it))

LineLen ==
    /\ call.op # "len"
    /\ call' = CallOf("len", 0, 0, 0)
    /\ ret' = IF Line_len(build, it).panicked THEN Panicked
              ELSE Returned({Line_len(build, it).val})
    /\ prev' = grid
    /\ UNCHANGED <<build, grid, viewVars, nops, done, iterVars>>

NextLine == LineNext \/ LineNextBack \/ LineLen

SpecLine == InitLine /\ [][NextLine]_vars

(***************************************************************************)
(* rows() / cols() and the Row / Col handles they yield, on a root grid.   *)
(* The cursor `it` is [of, y, b] for a RowsIter and [of, x, r] for a       *)
(* ColsIter; `out` lists the handles yielded as <<end, handle>>.           *)
(***************************************************************************)
Row_new(y) == [of |-> "row", index |-> y]
Col_new(x) == [of |-> "col", index |-> x]

\* RowsIter::new(grid, b) / ColsIter::new(grid, r)
RowsIter_new(b) == [of |-> "rows", y |-> 0, b |-> b]
ColsIter_new(r) == [of |-> "cols", x |-> 0, r |-> r]

\* Grid::rows / Grid::cols (rows_mut / cols_mut build the same cursor)
Grid_rows(g) == RowsIter_new(g.height)
Grid_cols(g) == ColsIter_new(g.width)

\* RowsIter::next / next_back / len
RowsIter_next(i) ==
    IF i.y < i.b THEN [it |-> [i EXCEPT !.y = i.y + 1], ret |-> {Row_new(i.y)}]
    ELSE [it |-> i, ret |-> {}]
\* a RowsIter::next_back that steps the end back without the test y < b
RowsIter_next_back_untested(i) ==
    [it |-> [i EXCEPT !.b = (i.b - 1) % (UsizeMax + 1)],
     ret |-> {Row_new((i.b - 1) % (UsizeMax + 1))}]
RowsIter_next_back(i) ==
    IF i.y < i.b THEN [it |-> [i EXCEPT !.b = i.b - 1], ret |-> {Row_new(i.b - 1)}]
    ELSE [it |-> i, ret |-> {}]
RowsIter_len(bld, i) == Minus(bld, i.b, i.y)

\* a ColsIter::next that numbers the columns from 1
ColsIter_next_from_one(i) ==
    IF i.x < i.r THEN [it |-> [i EXCEPT !.x = i.x + 1], ret |-> {Col_new(i.x + 1)}]
    ELSE [it |-> i, ret |-> {}]

\* ColsIter::next / next_back / len
ColsIter_next(i) ==
    IF i.x < i.r THEN [it |-> [i EXCEPT !.x = i.x + 1], ret |-> {Col_new(i.x)}]
    ELSE [it |-> i, ret |-> {}]
ColsIter_next_back(i) ==
    IF i.x < i.r THEN [it |-> [i EXCEPT !.r = i.r - 1], ret |-> {Col_new(i.r - 1)}]
    ELSE [it |-> i, ret |-> {}]
ColsIter_len(bld, i) == Minus(bld, i.r, i.x)

\* Grid::try_row / try_col, and row / col which expect() them
Grid_try_row(g, y) == IF y < g.height THEN {Row_new(y)} ELSE {}
Grid_try_col(g, x) == IF x < g.width THEN {Col_new(x)} ELSE {}
Grid_row(g, y) == Expect(Returned(Grid_try_row(g, y)))
Grid_col(g, x) == Expect(Returned(Grid_try_col(g, x)))

\* Row::len / Col::len
Handle_len(g, hd) == IF hd.of = "row" THEN g.width ELSE g.height

\* Row::get_mut(x) / Col::get_mut(y): the slot handed out
Handle_get_mut(g, hd, k) ==
    IF hd.of = "row" THEN GridMut_get_mut(g, k, hd.index)
    ELSE GridMut_get_mut(g, hd.index, k)

\* for item in row.iter_mut() { *item = val }, from position x on:
\* RowIter<&mut Row<&mut G>>::next is `self.row.get_mut(self.x)?`, then x += 1
RECURSIVE Row_iter_mut_each(_, _, _, _)
Row_iter_mut_each(g, hd, x, val) ==
    LET slot == Handle_get_mut(g, hd, x)
    IN  IF slot = {} THEN Outcome(g, FALSE)
        ELSE Row_iter_mut_each(Replace(g, CHOOSE k \in slot : TRUE, val), hd, x + 1, val)

\* for item in col.iter_mut() { *item = val }: ColIter<&mut G>::next is
\* `get_mut(self.x, self.y).unwrap()` while y < b
RECURSIVE Col_iter_mut_each(_, _, _, _)
Col_iter_mut_each(g, hd, y, val) ==
    IF y >= g.height THEN Outcome(g, FALSE)
    ELSE LET slot == Handle_get_mut(g, hd, y)
         IN  IF slot = {} THEN Outcome(g, TRUE)
             ELSE Col_iter_mut_each(Replace(g, CHOOSE k \in slot : TRUE, val),
                                    hd, y + 1, val)

\* Col::fill: rows 1 .. len-1, then row 0, each through get_mut(y).unwrap()
RECURSIVE Col_assign(_, _, _, _)
Col_assign(g, hd, ys, val) ==
    IF ys = <<>> THEN Outcome(g, FALSE)
    ELSE LET slot == Handle_get_mut(g, hd, Head(ys))
         IN  IF slot = {} THEN Outcome(g, TRUE)
             ELSE Col_assign(Replace(g, CHOOSE k \in slot : TRUE, val),
                             hd, Tail(ys), val)
Col_fill(g, hd, val) ==
    IF g.height = 0 THEN Outcome(g, FALSE)
    ELSE Col_assign(g, hd, [k \in 1 .. g.height |-> k % g.height], val)

InitRows ==
    /\ build \in Builds
    /\ \E k \in Kinds, sh \in IterShapes : grid = RootGrid(k, sh[1], sh[2])
    /\ view = NoView /\ depth = 0 /\ offs = NoOffs
    /\ call = NoCall
    /\ ret = Returned({})
    /\ prev = grid
    /\ nops = 0
    /\ done = FALSE
    /\ it \in {Grid_rows(grid), Grid_cols(grid)}
    /\ out = <<>>

\* the effect shared by next() and next_back() of rows() / cols()
RowsStep(end, r) ==
    /\ ~done
    /\ nops < (IF it.of = "rows" THEN grid.height ELSE grid.width) + MaxOps
    /\ call' = CallOf(end, 0, 0, 0)
    /\ it' = r.it
    /\ ret' = Returned(r.ret)
    /\ out' = IF r.ret = {} THEN out
              ELSE Append(out, <<end, CHOOSE hd \in r.ret : TRUE>>)
    /\ prev' = grid
    /\ nops' = nops + 1
    /\ UNCHANGED <<build, grid, viewVars, done>>

RowsNext ==
    /\ ~done
    /\ RowsStep("next", IF it.of = "rows" THEN RowsIter_next(it) ELSE ColsIter_next(it))

RowsNextBack ==
    /\ ~done
    /\ RowsStep("next_back",
                IF it.of = "rows" THEN RowsIter_next_back(it) ELSE ColsIter_next_back(it))

RowsLen ==
    /\ ~done /\ call.op # "len"
    /\ call' = CallOf("len", 0, 0, 0)
    /\ ret' = LET n == IF it.of = "rows" THEN RowsIter_len(build, it)
                       ELSE ColsIter_len(build, it)
              IN  IF n.panicked THEN Panicked ELSE Returned({n.val})
    /\ prev' = grid
    /\ UNCHANGED <<build, grid, viewVars, nops, done, iterVars>>

\* try_row(y) / try_col(x) / row(y) / col(x) on the grid, before iterating
Lookup(op, k, r) ==
    /\ ~done /\ nops = 0
    /\ call' = CallOf(op, k, 0, 0)
    /\ ret' = r
    /\ done' = TRUE
    /\ prev' = grid
    /\ UNCHANGED <<build, grid, viewVars, nops, iterVars>>

TryRow(y) ==
    /\ ~done
    /\ Lookup("try_row", y, Returned(Grid_try_row(grid, y)))
TryCol(x) ==
    /\ ~done
    /\ Lookup("try_col", x, Returned(Grid_try_col(grid, x)))
RowOf(y) ==
    /\ ~done
    /\ Lookup("row", y, Grid_row(grid, y))
ColOf(x) ==
    /\ ~done
    /\ Lookup("col", x, Grid_col(grid, x))

\* a mutation through the n-th handle yielded; o is its outcome.  call.x is
\* the handle's kind and index, call.y the position asked for
Mutate(op, n, k, val, r, o) ==
    /\ ~done
    /\ n \in 1 .. Len(out)
    /\ call' = [CallOf(op, out[n][2].index, k, val) EXCEPT !.w = n]
    /\ ret' = r
    /\ grid' = o.grid
    /\ prev' = grid
    /\ done' = TRUE
    /\ UNCHANGED <<build, viewVars, nops, iterVars>>

\* *handle.get_mut(k)? = val
HandleGetMut(n, k, val) ==
    /\ n \in 1 .. Len(out)
    /\ LET slot == Handle_get_mut(grid, out[n][2], k)
       IN  Mutate("handle_get_mut", n, k, val, Returned({grid.store[j + 1] : j \in slot}),
                  Outcome(IF slot = {} THEN grid
                          ELSE Replace(grid, CHOOSE j \in slot : TRUE, val), FALSE))

\* for item in handle.iter_mut() { *item = val }
HandleIterMut(n, val) ==
    /\ n \in 1 .. Len(out)
    /\ LET o == IF out[n][2].of = "row" THEN Row_iter_mut_each(grid, out[n][2], 0, val)
                ELSE Col_iter_mut_each(grid, out[n][2], 0, val)
       IN  Mutate("handle_iter_mut", n, 0, val,
                  IF o.panicked THEN Panicked ELSE Returned({}), o)

\* handle.fill(val)
HandleFill(n, val) ==
    /\ n \in 1 .. Len(out)
    /\ LET o == IF out[n][2].of = "row"
                THEN Row_fill(build, grid, NoView, out[n][2].index, val)
                ELSE Col_fill(grid, out[n][2], val)
       IN  Mutate("handle_fill", n, 0, val,
                  IF o.panicked THEN Panicked ELSE Returned({}), o)

NextRows ==
    \/ RowsNext
    \/ RowsNextBack
    \/ RowsLen
    \/ \E y \in Args : TryRow(y)
    \/ \E x \in Args : TryCol(x)
    \/ \E y \in Args : RowOf(y)
    \/ \E x \in Args : ColOf(x)
    \/ \E n \in 1 .. TestH, k \in Args : HandleGetMut(n, k, 9)
    \/ \E n \in 1 .. TestH : HandleIterMut(n, 9)
    \/ \E n \in 1 .. TestH : HandleFill(n, 9)

SpecRows == InitRows /\ [][NextRows]_vars

(***************************************************************************)
(* Raw rows of a root grid.                                                *)
(***************************************************************************)
\* GridBuf::row_slice: the same expression as row_slice_mut, on as_slice()
GridBuf_row_slice(bld, g, y) == GridBuf_row_slice_mut(bld, g, y)

\* <[[T; W]; H] as Grid>::row_slice
Array_row_slice(g, y) ==
    Returned(IF y < g.height THEN {Slice(y * g.width, g.width)} ELSE {})

Grid_row_slice(bld, g, y) ==
    IF Declines(g) THEN Returned({})
    ELSE IF g.kind = "buf" THEN GridBuf_row_slice(bld, g, y)
    ELSE Array_row_slice(g, y)

\* the elements of a slice of g's store
SliceElems(g, s) == [k \in 1 .. s.len |-> g.store[s.off + k]]

\* the rows asked for
SliceRows == (0 .. TestH) \cup {UsizeMax}

InitSlice ==
    /\ build \in Builds
    /\ \E k \in Kinds, sh \in IterShapes : grid = RootGrid(k, sh[1], sh[2])
    /\ view = NoView /\ depth = 0 /\ offs = NoOffs
    /\ call = NoCall
    /\ ret = Returned({})
    /\ prev = grid
    /\ nops = 0
    /\ done = FALSE
    /\ it = GridIter_new /\ out = <<>>

RowSlice(y) ==
    /\ nops < MaxOps
    /\ call' = CallOf("row_slice", 0, y, 0)
    /\ ret' = Grid_row_slice(build, grid, y)
    /\ prev' = grid
    /\ nops' = nops + 1
    /\ UNCHANGED <<build, grid, viewVars, done, iterVars>>

RowSliceMut(y) ==
    /\ nops < MaxOps
    /\ call' = CallOf("row_slice_mut", 0, y, 0)
    /\ ret' = GridMut_row_slice_mut(build, grid, y)
    /\ prev' = grid
    /\ nops' = nops + 1
    /\ UNCHANGED <<build, grid, viewVars, done, iterVars>>

NextSlice ==
    \/ \E y \in SliceRows : RowSlice(y)
    \/ \E y \in SliceRows : RowSliceMut(y)

SpecSlice == InitSlice /\ [][NextSlice]_vars

(***************************************************************************)
(* Copying one row or column into another.  The destination is the pair    *)
(* (root g, view v) and a row y of it (or the column x of the root g); the *)
(* source is a root grid sg and its row sy (column sx).                    *)
(***************************************************************************)
\* a source grid, with contents that differ from every destination's
SourceGrid(k, w, h) ==
    [kind |-> k, width |-> w, height |-> h,
     store |-> [i \in 1 .. w * h |-> 20 + i]]

\* the body of the loops of Row::clone_from for the positions xs, in order.
\* d and s are the raw rows (or {} where there is none): the destination
\* is written through dst[x] when d is there and through get_mut(x).unwrap()
\* otherwise, the source is read through src[x] or get(x).unwrap()
RECURSIVE Row_clone_cells(_, _, _, _, _, _, _, _, _)
Row_clone_cells(bld, g, v, y, xs, d, sg, sy, s) ==
    IF xs = <<>> THEN Outcome(g, FALSE)
    ELSE LET x    == Head(xs)
             from == IF s = {} THEN Grid_get(sg, x, sy)
                     ELSE UNION {IF x < sl.len THEN {sg.store[sl.off + x + 1]} ELSE {} : sl \in s}
             slot == IF d = {} THEN Of_get_mut(bld, g, v, x, y)
                     ELSE Returned(UNION {IF x < dl.len THEN {dl.off + x} ELSE {} : dl \in d})
         IN  IF from = {} \/ slot.panicked \/ slot.val = {} THEN Outcome(g, TRUE)
             ELSE Row_clone_cells(bld,
                                  Replace(g, CHOOSE k \in slot.val : TRUE,
                                          CHOOSE e \in from : TRUE),
                                  v, y, Tail(xs), d, sg, sy, s)

\* a clone_from without the assertion on the two lengths
Row_clone_from_unchecked(bld, g, v, y, sg, sy) ==
    LET d == Of_row_slice_mut(bld, g, v, y)
        s == Grid_row_slice(bld, sg, sy)
    IN  IF d.panicked \/ s.panicked THEN Outcome(g, TRUE)
        ELSE Row_clone_cells(bld, g, v, y, [k \in 1 .. Of_width(g, v) |-> k - 1],
                             d.val, sg, sy, s.val)

\* Row::clone_from
Row_clone_from(bld, g, v, y, sg, sy) ==
    LET d == Of_row_slice_mut(bld, g, v, y)
        s == Grid_row_slice(bld, sg, sy)
    IN  IF Of_width(g, v) # sg.width THEN Outcome(g, TRUE)
        ELSE IF d.panicked \/ s.panicked THEN Outcome(g, TRUE)
        ELSE IF d.val # {} /\ s.val # {}
             /\ \E dl \in d.val, sl \in s.val : dl.len # sl.len
        THEN Outcome(g, TRUE)
        ELSE Row_clone_cells(bld, g, v, y,
                             [k \in 1 .. (IF d.val # {} /\ s.val = {} THEN sg.width
                                          ELSE Of_width(g, v)) |-> k - 1],
                             d.val, sg, sy, s.val)

\* Row::copy_from: the statements of clone_from, copying instead of cloning
Row_copy_from(bld, g, v, y, sg, sy) == Row_clone_from(bld, g, v, y, sg, sy)

\* the loop of Col::clone_from, `for (dst, src) in self.iter_mut().zip(col)`,
\* from row y on: the destination's next() is get_mut(x, y).unwrap() while
\* y < height, then the source's next() is get(sx, y) while y < its height
RECURSIVE Col_zip_cells(_, _, _, _, _)
Col_zip_cells(g, x, y, sg, sx) ==
    IF y >= g.height THEN Outcome(g, FALSE)
    ELSE LET slot == GridMut_get_mut(g, x, y)
             from == IF y < sg.height THEN Grid_get(sg, sx, y) ELSE {}
         IN  IF slot = {} THEN Outcome(g, TRUE)
             ELSE IF from = {} THEN Outcome(g, FALSE)
             ELSE Col_zip_cells(Replace(g, CHOOSE k \in slot : TRUE,
                                        CHOOSE e \in from : TRUE),
                                x, y + 1, sg, sx)

\* Col::clone_from / Col::copy_from on the column x of the root g
Col_clone_from(g, x, sg, sx) ==
    IF g.height # sg.height THEN Outcome(g, TRUE)
    ELSE Col_zip_cells(g, x, 0, sg, sx)
Col_copy_from(g, x, sg, sx) == Col_clone_from(g, x, sg, sx)

\* the shapes of the source grids
SourceShapes == {<<0, 1>>, <<1, 0>>, <<MaxW, MaxH>>, <<TestW, TestH>>}

\* the elements of the row y / of the column x of a grid, in order
RowElems(g, y) == [k \in 1 .. g.width |-> g.store[y * g.width + k]]
ColElems(g, x) == [k \in 1 .. g.height |-> g.store[(k - 1) * g.width + x + 1]]

InitCopy ==
    /\ build \in Builds
    /\ \E k \in Kinds, sh \in IterShapes : grid = RootGrid(k, sh[1], sh[2])
    /\ view = NoView /\ depth = 0 /\ offs = NoOffs
    /\ call = NoCall
    /\ ret = Returned({})
    /\ prev = grid
    /\ nops = 0
    /\ done = FALSE
    /\ it = GridIter_new /\ out = <<>>

\* the effect of a copy into the root grid: o is its outcome, n the length
\* of the source, k the index of the destination, elems the source's elements
Copied(op, n, k, elems, o) ==
    /\ call' = CallOf(op, n, k, elems)
    /\ ret' = IF o.panicked THEN Panicked ELSE Returned({})
    /\ grid' = o.grid
    /\ prev' = grid
    /\ done' = TRUE
    /\ UNCHANGED <<build, viewVars, nops, iterVars>>

\* grid.row_mut(y).clone_from(sg.row(sy))
RowCloneFrom(y, sg, sy) ==
    /\ ~done /\ y < grid.height /\ sy < sg.height
    /\ Copied("row_clone_from", sg.width, y, RowElems(sg, sy),
              Row_clone_from(build, grid, NoView, y, sg, sy))

RowCopyFrom(y, sg, sy) ==
    /\ ~done /\ y < grid.height /\ sy < sg.height
    /\ Copied("row_copy_from", sg.width, y, RowElems(sg, sy),
              Row_copy_from(build, grid, NoView, y, sg, sy))

\* grid.col_mut(x).clone_from(sg.col(sx))
ColCloneFrom(x, sg, sx) ==
    /\ ~done /\ x < grid.width /\ sx < sg.width
    /\ Copied("col_clone_from", sg.height, x, ColElems(sg, sx),
              Col_clone_from(grid, x, sg, sx))

ColCopyFrom(x, sg, sx) ==
    /\ ~done /\ x < grid.width /\ sx < sg.width
    /\ Copied("col_copy_from", sg.height, x, ColElems(sg, sx),
              Col_copy_from(grid, x, sg, sx))

NextCopy ==
    \/ \E y \in 0 .. TestH, k \in Kinds, sh \in SourceShapes, sy \in 0 .. TestH :
           RowCloneFrom(y, SourceGrid(k, sh[1], sh[2]), sy)
    \/ \E y \in 0 .. TestH, k \in Kinds, sh \in SourceShapes, sy \in 0 .. TestH :
           RowCopyFrom(y, SourceGrid(k, sh[1], sh[2]), sy)
    \/ \E x \in 0 .. TestW, k \in Kinds, sh \in SourceShapes, sx \in 0 .. TestW :
           ColCloneFrom(x, SourceGrid(k, sh[1], sh[2]), sx)
    \/ \E x \in 0 .. TestW, k \in Kinds, sh \in SourceShapes, sx \in 0 .. TestW :
           ColCopyFrom(x, SourceGrid(k, sh[1], sh[2]), sx)

SpecCopy == InitCopy /\ [][NextCopy]_vars

(***************************************************************************)
(* Drawing a source grid onto a destination (root g, view v).              *)
(***************************************************************************)
\* the loop of draw_cloned, `for (dst, src) in self.rows_mut().zip(grid.rows())
\* { dst.draw_cloned(src) }`, from row y on; the Row method is Row::clone_from
RECURSIVE DrawRows(_, _, _, _, _)
DrawRows(bld, g, v, y, sg) ==
    IF y >= Of_height(g, v) \/ y >= sg.height THEN Outcome(g, FALSE)
    ELSE LET o == Row_clone_from(bld, g, v, y, sg, y)
         IN  IF o.panicked THEN o ELSE DrawRows(bld, o.grid, v, y + 1, sg)

\* GridMut::draw_cloned
GridMut_draw_cloned(bld, g, v, sg) ==
    IF Of_width(g, v) # sg.width THEN Outcome(g, TRUE)
    ELSE IF Of_height(g, v) # sg.height THEN Outcome(g, TRUE)
    ELSE DrawRows(bld, g, v, 0, sg)

\* GridMut::draw_copied: the statements of draw_cloned, copying
GridMut_draw_copied(bld, g, v, sg) == GridMut_draw_cloned(bld, g, v, sg)

\* the shapes of the grids drawn
DrawShapes == {<<0, 1>>, <<DocH, 1>>, <<MaxW, MaxH>>, <<TestW, TestH>>}

\* the effect of a draw onto the view held (onto the root when none is)
Drawn(op, sg, o) ==
    /\ call' = [CallOf(op, 0, 0, 0) EXCEPT !.w = sg.width, !.h = sg.height]
    /\ ret' = IF o.panicked THEN Panicked ELSE Returned({})
    /\ grid' = o.grid
    /\ out' = <<sg>>
    /\ prev' = grid
    /\ done' = TRUE
    /\ UNCHANGED <<build, viewVars, nops, it>>

DrawCloned(sg) ==
    /\ ~done /\ (view.live => view.mut)
    /\ Drawn("draw_cloned", sg, GridMut_draw_cloned(build, grid, view, sg))

DrawCopied(sg) ==
    /\ ~done /\ (view.live => view.mut)
    /\ Drawn("draw_copied", sg, GridMut_draw_copied(build, grid, view, sg))

NextDraw ==
    \/ \E a \in XSpans, b \in YSpans : TryViewMut(a[1], b[1], a[2], b[2])
    \/ \E a \in XSpans, b \in YSpans : ViewMutOf(a[1], b[1], a[2], b[2])
    \/ \E k \in Kinds, sh \in DrawShapes : DrawCloned(SourceGrid(k, sh[1], sh[2]))
    \/ \E k \in Kinds, sh \in DrawShapes : DrawCopied(SourceGrid(k, sh[1], sh[2]))

SpecDraw == InitView /\ [][NextDraw]_vars

(***************************************************************************)
(* Snapshots: to_vec_grid of a grid given as the pair (root g, view v),    *)
(* and to_store / with_store on the result.                                *)
(***************************************************************************)
\* Grid::get and Grid::row_slice on the pair (root, view)
Of_get(bld, g, v, x, y) ==
    IF v.live THEN View_get(bld, g, v, x, y) ELSE Returned(Grid_get(g, x, y))

Of_row_slice(bld, g, v, y) ==
    IF v.live THEN View_row_slice(bld, g, v, y) ELSE Grid_row_slice(bld, g, y)

\* row.iter().cloned() of row y, from column x on: the iterator of row.rs,
\* `if self.x < self.w { let val = self.row.get(self.x).unwrap(); ... }`
RECURSIVE Row_iter_cloned(_, _, _, _, _)
Row_iter_cloned(bld, g, v, y, x) ==
    IF ~(x < Of_width(g, v)) THEN Returned(<<>>)
    ELSE LET c == Of_get(bld, g, v, x, y)
         IN  IF c.panicked \/ c.val = {} THEN Panicked
             ELSE LET rest == Row_iter_cloned(bld, g, v, y, x + 1)
                  IN  IF rest.panicked THEN Panicked
                      ELSE Returned(<<CHOOSE e \in c.val : TRUE>> \o rest.val)

\* the loop of to_vec_grid, `for row in self.rows()`, from row y on: the raw
\* row is appended when there is one, else the row's elements one by one
RECURSIVE to_vec_grid_rows(_, _, _, _, _)
to_vec_grid_rows(bld, g, v, y, vec) ==
    IF ~(y < Of_height(g, v)) THEN Returned(vec)
    ELSE LET raw == Of_row_slice(bld, g, v, y)
             els == Row_iter_cloned(bld, g, v, y, 0)
         IN  IF raw.panicked THEN Panicked
             ELSE IF raw.val # {}
             THEN to_vec_grid_rows(bld, g, v, y + 1,
                                   vec \o SliceElems(g, CHOOSE s \in raw.val : TRUE))
             ELSE IF els.panicked THEN Panicked
             ELSE to_vec_grid_rows(bld, g, v, y + 1, vec \o els.val)

\* Grid::to_vec_grid (the capacity only reserves memory)
Grid_to_vec_grid(bld, g, v) ==
    LET cap == Times(bld, Of_width(g, v), Of_height(g, v))
        vec == to_vec_grid_rows(bld, g, v, 0, <<>>)
    IN  IF cap.panicked \/ vec.panicked THEN Panicked
        ELSE GridBuf_with_store(Of_width(g, v), Of_height(g, v), vec.val)

\* GridBuf::to_store
GridBuf_to_store(g) == g.store

\* the root grids snapshotted: every shape up to MaxW x MaxH, and the test grid
InitSnap ==
    /\ build \in Builds
    /\ \E k \in Kinds :
           \/ \E w \in 0 .. MaxW, h \in 0 .. MaxH : grid = RootGrid(k, w, h)
           \/ grid = RootGrid(k, TestW, TestH)
    /\ view = NoView /\ depth = 0 /\ offs = NoOffs
    /\ call = NoCall
    /\ ret = Returned({})
    /\ prev = grid
    /\ nops = 0
    /\ done = FALSE
    /\ it = GridIter_new /\ out = <<>>

\* to_vec_grid() of the view held (of the root when none is), then to_store()
\* of the snapshot and with_store(width, height, that buffer)
ToVecGrid ==
    /\ ~done
    /\ call' = CallOf("to_vec_grid", 0, 0, 0)
    /\ ret' = Grid_to_vec_grid(build, grid, view)
    /\ out' = IF ret'.panicked THEN <<>>
              ELSE LET s == CHOOSE s \in ret'.val : TRUE
                   IN  <<GridBuf_to_store(s),
                         GridBuf_with_store(s.width, s.height, GridBuf_to_store(s))>>
    /\ prev' = grid
    /\ done' = TRUE
    /\ UNCHANGED <<build, grid, viewVars, nops, it>>

\* views of every size, zero heights included
NextSnap ==
    \/ \E a \in XSpans, b \in YSpans \cup {<<1, 0>>} : TryView(a[1], b[1], a[2], b[2])
    \/ ToVecGrid

SpecSnap == InitSnap /\ [][NextSnap]_vars

(***************************************************************************)
(* Offsets from the root.                                                  *)
(***************************************************************************)
\* root_x() / root_y() of a root grid (GridBuf and 2D array alike)
Root_root_x(g) == 0
Root_root_y(g) == 0

\* root_x() / root_y() of a view
View_root_x(v) == v.x
View_root_y(v) == v.y

Of_root_x(g, v) == IF v.live THEN View_root_x(v) ELSE Root_root_x(g)
Of_root_y(g, v) == IF v.live THEN View_root_y(v) ELSE Root_root_y(g)

(***************************************************************************)
(* Cell and raw-row lookups with every usize as a coordinate.              *)
(***************************************************************************)
\* every value of a usize
Words == 0 .. UsizeMax

NextWord ==
    \/ \E x \in Words, y \in Words : Get(x, y)
    \/ \E x \in Words, y \in Words : GetMut(x, y)
    \/ \E y \in Words : RowSlice(y)
    \/ \E y \in Words : RowSliceMut(y)

SpecWord == InitSlice /\ [][NextWord]_vars

(***************************************************************************)
(* VecGrid and ConstGrid (vec_grid.rs, const_grid.rs): flip_x.  Both are   *)
(* modelled by the record of a grid, with the cells stored row-major.      *)
(***************************************************************************)
FlipKinds == {"vec", "const"}

\* get_unchecked_mut((x, y)): data[y * width + x] of a VecGrid, data[y][x]
\* of a ConstGrid
Flip_get_unchecked_mut(g, x, y) == y * g.width + x

\* std::mem::swap through two slots
Swap(g, a, b) ==
    [g EXCEPT !.store = [@ EXCEPT ![a + 1] = g.store[b + 1], ![b + 1] = g.store[a + 1]]]

\* `for y in 0..h { swap((x, y), (x2, y)) }`, from row y on
RECURSIVE flip_x_rows(_, _, _, _)
flip_x_rows(g, x, x2, y) ==
    IF ~(y < g.height) THEN g
    ELSE flip_x_rows(Swap(g, Flip_get_unchecked_mut(g, x, y),
                             Flip_get_unchecked_mut(g, x2, y)), x, x2, y + 1)

\* `for x in 0..w { let x2 = (w - 1) - x; if x != x2 { ... } }`, from column x on
RECURSIVE flip_x_cols(_, _)
flip_x_cols(g, x) ==
    IF ~(x < g.width) THEN g
    ELSE LET x2 == (g.width - 1) - x
         IN  flip_x_cols(IF x # x2 THEN flip_x_rows(g, x, x2, 0) ELSE g, x + 1)

\* VecGrid::flip_x / ConstGrid::flip_x
VecGrid_flip_x(g) == IF g.width > 0 THEN flip_x_cols(g, 0) ELSE g
ConstGrid_flip_x(g) == IF g.width > 0 THEN flip_x_cols(g, 0) ELSE g

InitFlip ==
    /\ build \in Builds
    /\ \E k \in FlipKinds, sh \in IterShapes : grid = RootGrid(k, sh[1], sh[2])
    /\ view = NoView /\ depth = 0 /\ offs = NoOffs
    /\ call = NoCall
    /\ ret = Returned({})
    /\ prev = grid
    /\ nops = 0
    /\ done = FALSE
    /\ it = GridIter_new /\ out = <<>>

FlipX ==
    /\ nops < MaxOps
    /\ call' = CallOf("flip_x", 0, 0, 0)
    /\ grid' = IF grid.kind = "vec" THEN VecGrid_flip_x(grid) ELSE ConstGrid_flip_x(grid)
    /\ ret' = Returned({})
    /\ prev' = grid
    /\ nops' = nops + 1
    /\ UNCHANGED <<build, viewVars, done, iterVars>>

NextFlip == FlipX

SpecFlip == InitFlip /\ [][NextFlip]_vars

(***************************************************************************)
(* Grid<T>::clone_rect (grid_t.rs) on VecGrids.  IntRect and Int2 come     *)
(* from the `math` crate: a rectangle is [x, y, w, h] and a point [x, y],  *)
(* with signed coordinates; overlap is the intersection (None when it is   *)
(* empty), + and - translate, and iter() lists the points row by row.      *)
(***************************************************************************)
int2(x, y) == [x |-> x, y |-> y]
irect(x, y, w, h) == [x |-> x, y |-> y, w |-> w, h |-> h]
Int2_plus(a, b) == int2(a.x + b.x, a.y + b.y)
IntRect_plus(r, v) == irect(r.x + v.x, r.y + v.y, r.w, r.h)
IntRect_minus(r, v) == irect(r.x - v.x, r.y - v.y, r.w, r.h)
Larger(a, b) == IF a >= b THEN a ELSE b
Smaller(a, b) == IF a <= b THEN a ELSE b
IntRect_overlap(a, b) ==
    LET l == Larger(a.x, b.x)
        t == Larger(a.y, b.y)
        r == Smaller(a.x + a.w, b.x + b.w)
        d == Smaller(a.y + a.h, b.y + b.h)
    IN  IF l < r /\ t < d THEN {irect(l, t, r - l, d - t)} ELSE {}
IntRect_iter(r) ==
    [k \in 1 .. (IF r.w > 0 /\ r.h > 0 THEN r.w * r.h ELSE 0) |-> int2(r.x + ((k - 1) % r.w), r.y + ((k - 1) \div r.w))]

\* Grid::bounds
GridT_bounds(g) == irect(0, 0, g.width, g.height)

\* <Int2 as GridIndex>::index: (y * width + x) as usize
Int2_index(p, width) == (p.y * width + p.x) % (UsizeMax + 1)

\* VecGrid::get / get_mut with an Int2, and Grid::set
VecGrid_get(g, p) == slice_get(g.store, Int2_index(p, g.width))
VecGrid_get_mut(g, p) == {k \in {Int2_index(p, g.width)} : k < Len(g.store)}
GridT_set(g, p, val) ==
    LET slot == VecGrid_get_mut(g, p)
    IN  IF slot = {} THEN g ELSE Replace(g, CHOOSE k \in slot : TRUE, val)

\* the loop of clone_rect over the points ps, in order
RECURSIVE clone_rect_points(_, _, _, _)
clone_rect_points(g, sg, ps, dest) ==
    IF ps = <<>> THEN g
    ELSE LET p == Head(ps)
             val == VecGrid_get(sg, p)
         IN  clone_rect_points(IF val = {} THEN g
                               ELSE GridT_set(g, Int2_plus(dest, p), CHOOSE e \in val : TRUE),
                               sg, Tail(ps), dest)

\* Grid::clone_rect
GridT_clone_rect(g, sg, rect, dest) ==
    LET s1 == IntRect_overlap(GridT_bounds(sg), rect)
        d1 == UNION {IntRect_overlap(GridT_bounds(g), IntRect_plus(r, dest)) : r \in s1}
        s2 == UNION {IntRect_overlap(GridT_bounds(sg), IntRect_minus(r, dest)) : r \in d1}
    IN  IF s2 = {} THEN g
        ELSE clone_rect_points(g, sg, IntRect_iter(CHOOSE r \in s2 : TRUE), dest)

\* the rectangles and destinations asked for
RectOrigins == -1 .. 1
RectSizes == 1 .. MaxW
DestCoords == -1 .. MaxW

InitRect ==
    /\ build \in Builds
    /\ grid \in {RootGrid("vec", MaxW, MaxH), RootGrid("vec", TestW, TestH)}
    /\ view = NoView /\ depth = 0 /\ offs = NoOffs
    /\ call = NoCall
    /\ ret = Returned({})
    /\ prev = grid
    /\ nops = 0
    /\ done = FALSE
    /\ it = GridIter_new /\ out = <<>>

\* grid.clone_rect(&sg, rect, dest)
CloneRect(sg, rect, dest) ==
    /\ ~done
    /\ call' = CallOf("clone_rect", dest.x, dest.y, 0)
    /\ out' = <<sg, rect>>
    /\ grid' = GridT_clone_rect(grid, sg, rect, dest)
    /\ ret' = Returned({})
    /\ prev' = grid
    /\ done' = TRUE
    /\ UNCHANGED <<build, viewVars, nops, it>>

NextRect ==
    \E sh \in {<<MaxW, MaxH>>, <<TestW, 1>>}, rx \in RectOrigins, ry \in RectOrigins,
       rw \in RectSizes, rh \in RectSizes, dx \in DestCoords, dy \in DestCoords :
        CloneRect(SourceGrid("vec", sh[1], sh[2]), irect(rx, ry, rw, rh), int2(dx, dy))

SpecRect == InitRect /\ [][NextRect]_vars

(***************************************************************************)
(* SparseGrid (sparse_grid.rs): the values of the assigned cells (vals),   *)
(* their columns as i32 (cols), and for every row the index in vals of its *)
(* first cell (row_inds).  An i32 is narrower than a usize, as on a 64-bit *)
(* target.                                                                 *)
(***************************************************************************)
I32Bits == UsizeBits - 1
\* `n as i32`: the low bits of n, read as a signed number
as_i32(n) ==
    LET t == n % (2 ^ I32Bits)
    IN  IF t >= 2 ^ (I32Bits - 1) THEN t - 2 ^ I32Bits ELSE t

\* SparseGrid::default
SparseGrid_default == [kind |-> "sparse", vals |-> <<>>, cols |-> <<>>, row_inds |-> <<0>>, width |-> 0]

SparseGrid_width(g) == g.width
SparseGrid_height(g) == Len(g.row_inds) - 1

\* slice.binary_search(&e) on a sorted slice without repetitions: Ok(ind) is
\* [ok |-> TRUE, ind], Err(ind) is [ok |-> FALSE, ind], ind counted from 0
binary_search(s, e) ==
    IF \E k \in 1 .. Len(s) : s[k] = e
    THEN [ok |-> TRUE, ind |-> (CHOOSE k \in 1 .. Len(s) : s[k] = e) - 1]
    ELSE [ok |-> FALSE, ind |-> Cardinality({k \in 1 .. Len(s) : s[k] < e})]

\* Vec::insert(i, e), i counted from 0
Vec_insert(s, i, e) == SubSeq(s, 1, i) \o <<e>> \o SubSeq(s, i + 1, Len(s))

\* the search of row y for column x, shared by get, get_mut and set: the
\* index in vals where the row starts, and the result of the binary search
SparseGrid_find(g, x, y) ==
    LET row_i == g.row_inds[y + 1]
        row_j == g.row_inds[y + 2]
    IN  [row_i |-> row_i, at |-> binary_search(SubSeq(g.cols, row_i + 1, row_j), as_i32(x))]

\* SparseGrid::get with a (usize, usize)
SparseGrid_get(g, x, y) ==
    IF y < SparseGrid_height(g)
    THEN LET f == SparseGrid_find(g, x, y)
         IN  IF f.at.ok THEN {g.vals[f.row_i + f.at.ind + 1]} ELSE {}
    ELSE {}

\* SparseGrid::set with a (usize, usize)
SparseGrid_set(bld, g, x, y, val) ==
    LET top == g.row_inds[Len(g.row_inds)]
        h == SparseGrid_height(g)
        padded == [g EXCEPT !.row_inds =
                      @ \o [k \in 1 .. (IF y >= h THEN y + 1 - h ELSE 0) |-> top]]
        f == SparseGrid_find(padded, x, y)
        ind == f.row_i + f.at.ind
        x1 == Plus(bld, x, 1)
    IN  IF f.at.ok
        THEN Outcome([padded EXCEPT !.vals = [@ EXCEPT ![ind + 1] = val]], FALSE)
        ELSE IF x1.panicked THEN Outcome(g, TRUE)
        ELSE Outcome([padded EXCEPT
                         !.cols = Vec_insert(@, ind, as_i32(x)),
                         !.vals = Vec_insert(@, ind, val),
                         !.width = Larger(@, x1.val),
                         !.row_inds = [k \in 1 .. Len(@) |->
                                          IF k > y + 1 THEN @[k] + 1 ELSE @[k]]],
                     FALSE)

\* Grid::iter collected: in_rect(bounds()), then the points of the rectangle
\* whose get is Some, as <<x, y, value>>
RECURSIVE GridT_iter_points(_, _)
GridT_iter_points(g, ps) ==
    IF ps = <<>> THEN <<>>
    ELSE LET p == Head(ps)
             val == SparseGrid_get(g, p.x, p.y)
         IN  (IF val = {} THEN <<>> ELSE <<<<p.x, p.y, CHOOSE e \in val : TRUE>>>>)
                 \o GridT_iter_points(g, Tail(ps))

GridT_iter(g) ==
    LET b == irect(0, 0, as_i32(SparseGrid_width(g)), as_i32(SparseGrid_height(g)))
        r == IntRect_overlap(b, b)
    IN  IF r = {} THEN <<>> ELSE GridT_iter_points(g, IntRect_iter(CHOOSE q \in r : TRUE))

\* the columns set: ordinary ones, and two that do not fit an i32
SparseXs == (0 .. MaxArg) \cup {2 ^ I32Bits, 2 ^ I32Bits + 1}
SparseYs == 0 .. MaxArg

InitSparse ==
    /\ build \in Builds
    /\ grid = SparseGrid_default
    /\ view = NoView /\ depth = 0 /\ offs = NoOffs
    /\ call = NoCall
    /\ ret = Returned({})
    /\ prev = grid
    /\ nops = 0
    /\ done = FALSE
    /\ it = <<>> /\ out = <<>>

\* set((x, y), v); `out` keeps the calls made
SparseSet(x, y, v) ==
    /\ ~done /\ nops < MaxOps + 1
    /\ call' = CallOf("sparse_set", x, y, v)
    /\ grid' = SparseGrid_set(build, grid, x, y, v).grid
    /\ ret' = IF SparseGrid_set(build, grid, x, y, v).panicked THEN Panicked
              ELSE Returned({})
    /\ out' = Append(out, <<x, y, v>>)
    /\ prev' = grid
    /\ nops' = nops + 1
    /\ UNCHANGED <<build, viewVars, done, it>>

SparseGet(x, y) ==
    /\ ~done
    /\ call' = CallOf("sparse_get", x, y, 0)
    /\ ret' = Returned(SparseGrid_get(grid, x, y))
    /\ prev' = grid
    /\ done' = TRUE
    /\ UNCHANGED <<build, grid, viewVars, nops, iterVars>>

\* grid.iter().collect()
SparseIter ==
    /\ ~done
    /\ call' = CallOf("sparse_iter", 0, 0, 0)
    /\ it' = GridT_iter(grid)
    /\ ret' = Returned({})
    /\ prev' = grid
    /\ done' = TRUE
    /\ UNCHANGED <<build, grid, viewVars, nops, out>>

NextSparse ==
    \/ \E x \in SparseXs, y \in SparseYs, v \in Vals : SparseSet(x, y, v)
    \/ \E x \in SparseXs, y \in SparseYs \cup {MaxArg + 1} : SparseGet(x, y)
    \/ SparseIter

SpecSparse == InitSparse /\ [][NextSparse]_vars

(***************************************************************************)
(* fill_with.  The generator handed over returns Gen(k) at its k-th call,  *)
(* k counted from 0; an outcome tells how often it has been called.        *)
(***************************************************************************)
Gen(k) == 30 + k
Filled(g, p, n) == [grid |-> g, panicked |-> p, calls |-> n]

\* a slice.fill_with that hands the elements the next values of the generator
slice_fill_with_next(g, s, n) ==
    [g EXCEPT !.store = [k \in 1 .. Len(g.store) |->
                            IF s.off < k /\ k <= s.off + s.len
                            THEN Gen(n + k - s.off) ELSE g.store[k]]]

\* slice.fill_with(f), f called n times before
slice_fill_with(g, s, n) ==
    [g EXCEPT !.store = [k \in 1 .. Len(g.store) |->
                            IF s.off < k /\ k <= s.off + s.len
                            THEN Gen(n + k - s.off - 1) ELSE g.store[k]]]

\* `for x in 0..self.len() { *self.get_mut(x).unwrap() = f() }`, from x on:
\* f() is evaluated before the place it is assigned to
RECURSIVE Row_fill_with_cells(_, _, _, _, _, _)
Row_fill_with_cells(bld, g, v, y, x, n) ==
    IF ~(x < Of_width(g, v)) THEN Filled(g, FALSE, n)
    ELSE LET slot == Of_get_mut(bld, g, v, x, y)
         IN  IF slot.panicked \/ slot.val = {} THEN Filled(g, TRUE, n + 1)
             ELSE Row_fill_with_cells(bld, Replace(g, CHOOSE k \in slot.val : TRUE, Gen(n)),
                                      v, y, x + 1, n + 1)

\* Row::fill_with
Row_fill_with(bld, g, v, y, n) ==
    LET raw == Of_row_slice_mut(bld, g, v, y)
    IN  IF raw.panicked THEN Filled(g, TRUE, n)
        ELSE IF raw.val # {}
        THEN LET s == CHOOSE s \in raw.val : TRUE
             IN  Filled(slice_fill_with(g, s, n), FALSE, n + s.len)
        ELSE Row_fill_with_cells(bld, g, v, y, 0, n)

\* `for mut row in self.rows_mut() { row.fill_with(&mut f) }`, from row y on
RECURSIVE fill_with_rows(_, _, _, _, _)
fill_with_rows(bld, g, v, y, n) ==
    IF ~(y < Of_height(g, v)) THEN Filled(g, FALSE, n)
    ELSE LET o == Row_fill_with(bld, g, v, y, n)
         IN  IF o.panicked THEN o ELSE fill_with_rows(bld, o.grid, v, y + 1, o.calls)

\* GridMut::fill_with
GridMut_fill_with(bld, g, v) == fill_with_rows(bld, g, v, 0, 0)

(***************************************************************************)
(* Bulk operations on implementors that offer raw rows and on ones that    *)
(* decline, through the root or through a view of it.                      *)
(***************************************************************************)
InitPath ==
    /\ build \in Builds
    /\ \E k \in Kinds, sh \in {<<0, 1>>, <<TestW, TestH>>} :
           grid \in {RootGrid(k, sh[1], sh[2]), Declining(RootGrid(k, sh[1], sh[2]))}
    /\ view = NoView /\ depth = 0 /\ offs = NoOffs
    /\ call = NoCall
    /\ ret = Returned({})
    /\ prev = grid
    /\ nops = 0
    /\ done = FALSE
    /\ it = GridIter_new /\ out = <<>>

\* the grid operated on may be one made by VecGrid::new_with
PathNewWith(w, h) ==
    /\ ~done /\ depth = 0 /\ call = NoCall
    /\ call' = CallOf("new_with", w, h, 0)
    /\ Construct(VecGrid_new_with(w, h))

\* the view operated on is made by one call on the root
PathView(x, y, w, h) ==
    /\ depth = 0
    /\ TryViewMut(x, y, w, h)

\* the effect of a bulk operation: y is the row operated on, val the value
\* given, o the outcome, src the source grid and the row of it (none: <<>>);
\* after fill_with, src is no grid and the number of calls of the generator
Bulk(op, y, val, src, o) ==
    /\ ~done
    /\ call' = CallOf(op, 0, y, val)
    /\ out' = src
    /\ grid' = o.grid
    /\ ret' = IF o.panicked THEN Panicked ELSE Returned({})
    /\ prev' = grid
    /\ done' = TRUE
    /\ UNCHANGED <<build, viewVars, nops, it>>

PathRowFill(y, val) ==
    /\ y < Recv_height
    /\ Bulk("row_fill", y, val, <<>>, Row_fill(build, grid, view, y, val))

PathRowFillWith(y) ==
    /\ y < Recv_height
    /\ LET o == Row_fill_with(build, grid, view, y, 0)
       IN  Bulk("row_fill_with", y, 0, <<NoGrid, o.calls>>, o)

PathRowCloneFrom(y, sg, sy) ==
    /\ y < Recv_height /\ sy < sg.height
    /\ Bulk("row_clone_from", y, 0, <<sg, sy>>, Row_clone_from(build, grid, view, y, sg, sy))

PathRowCopyFrom(y, sg, sy) ==
    /\ y < Recv_height /\ sy < sg.height
    /\ Bulk("row_copy_from", y, 0, <<sg, sy>>, Row_copy_from(build, grid, view, y, sg, sy))

PathFill(val) ==
    /\ ~done
    /\ Bulk("fill", 0, val, <<>>, GridMut_fill(build, grid, view, val))

PathFillWith ==
    /\ ~done
    /\ LET o == GridMut_fill_with(build, grid, view)
       IN  Bulk("fill_with", 0, 0, <<NoGrid, o.calls>>, o)

PathDrawCloned(sg) ==
    /\ ~done
    /\ Bulk("draw_cloned", 0, 0, <<sg, 0>>, GridMut_draw_cloned(build, grid, view, sg))

PathDrawCopied(sg) ==
    /\ ~done
    /\ Bulk("draw_copied", 0, 0, <<sg, 0>>, GridMut_draw_copied(build, grid, view, sg))

\* the sources: of each storage, offering raw rows and declining
PathSources ==
    {SourceGrid(k, sh[1], sh[2]) : k \in Kinds, sh \in DrawShapes}
        \cup {Declining(SourceGrid(k, sh[1], sh[2])) : k \in Kinds, sh \in DrawShapes}

NextPath ==
    \/ \E w \in CtorDims, h \in CtorDims : PathNewWith(w, h)
    \/ \E a \in XSpans, b \in YSpans : PathView(a[1], b[1], a[2], b[2])
    \/ \E y \in 0 .. TestH - 1, val \in Vals : PathRowFill(y, val)
    \/ \E y \in 0 .. TestH - 1 : PathRowFillWith(y)
    \/ \E y \in 0 .. TestH - 1, sg \in PathSources : PathRowCloneFrom(y, sg, 0)
    \/ \E y \in 0 .. TestH - 1, sg \in PathSources : PathRowCopyFrom(y, sg, 0)
    \/ \E val \in Vals : PathFill(val)
    \/ PathFillWith
    \/ \E sg \in PathSources : PathDrawCloned(sg)
    \/ \E sg \in PathSources : PathDrawCopied(sg)

SpecPath == InitPath /\ [][NextPath]_vars

(***************************************************************************)
(* The four double-ended cursors side by side: a RowIter or ColIter of a   *)
(* row or column of a root grid, or the RowsIter or ColsIter of the grid,  *)
(* driven from both ends.                                                   *)
(***************************************************************************)
InitEnds == InitLine \/ InitRows

EndsLineNext ==
    /\ it.of \in {"row", "col"}
    /\ LineNext

EndsLineNextBack ==
    /\ it.of \in {"row", "col"}
    /\ LineNextBack

EndsLineLen ==
    /\ it.of \in {"row", "col"}
    /\ LineLen

EndsRowsNext ==
    /\ it.of \in {"rows", "cols"}
    /\ RowsNext

EndsRowsNextBack ==
    /\ it.of \in {"rows", "cols"}
    /\ RowsNextBack

EndsRowsLen ==
    /\ it.of \in {"rows", "cols"}
    /\ RowsLen

NextEnds ==
    \/ EndsLineNext
    \/ EndsLineNextBack
    \/ EndsLineLen
    \/ EndsRowsNext
    \/ EndsRowsNextBack
    \/ EndsRowsLen

SpecEnds == InitEnds /\ [][NextEnds]_vars

(***************************************************************************)
(* What row.iter_mut() yields.                                              *)
(***************************************************************************)
\* the places of the store that repeated next() calls of row.iter_mut()
\* yield from position x on, until `self.row.get_mut(self.x)?` is None
RECURSIVE Row_iter_mut_slots(_, _, _)
Row_iter_mut_slots(g, hd, x) ==
    LET slot == Handle_get_mut(g, hd, x)
    IN  IF slot = {} THEN <<>>
        ELSE <<CHOOSE k \in slot : TRUE>> \o Row_iter_mut_slots(g, hd, x + 1)

(***************************************************************************)
(* last() of the cursors.  Beside the RowIter, ColIter, RowsIter and       *)
(* ColsIter above, row.rs defines the cursor Rows { grid, y, h } over the  *)
(* rows y .. h of a grid; `it` is then [of |-> "Rows", y, h].  A Rows is   *)
(* built inside the crate only, as the struct literal with y = 0 and       *)
(* h = height.                                                             *)
(***************************************************************************)
\* <RowIter<&G> as Iterator>::last
RowIter_last(g, i) == IF i.x < i.r THEN Grid_get(g, i.r - 1, i.y) ELSE {}

\* <ColIter<&G> as Iterator>::last
ColIter_last(g, i) == IF i.y < i.b THEN Grid_get(g, i.x, i.b - 1) ELSE {}

\* <RowsIter<&G> as Iterator>::last
RowsIter_last(i) == IF i.y < i.b THEN {Row_new(i.b - 1)} ELSE {}

\* <ColsIter<&G> as Iterator>::last
ColsIter_last(i) == IF i.x < i.r THEN {Col_new(i.r - 1)} ELSE {}

\* Rows { grid, y: 0, h }
Rows_over(g) == [of |-> "Rows", y |-> 0, h |-> g.height]

\* <Rows<&G> as Iterator>::next
Rows_next(i) ==
    IF i.y < i.h THEN [it |-> [i EXCEPT !.y = i.y + 1], ret |-> {Row_new(i.y)}]
    ELSE [it |-> i, ret |-> {}]

\* <Rows<&G> as DoubleEndedIterator>::next_back
Rows_next_back(i) ==
    IF i.h > i.y THEN [it |-> [i EXCEPT !.h = i.h - 1], ret |-> {Row_new(i.h - 1)}]
    ELSE [it |-> i, ret |-> {}]

\* <Rows<&G> as Iterator>::last: self.h.checked_sub(1).map(|y| Row { grid, y })
Rows_last(i) == IF i.h >= 1 THEN {Row_new(i.h - 1)} ELSE {}

\* last() of the cursor i, whichever of the five it is
Cursor_last(g, i) ==
    CASE i.of = "row" -> RowIter_last(g, i)
      [] i.of = "col" -> ColIter_last(g, i)
      [] i.of = "rows" -> RowsIter_last(i)
      [] i.of = "cols" -> ColsIter_last(i)
      [] i.of = "Rows" -> Rows_last(i)

InitLast ==
    \/ InitLine
    \/ InitRows
    \/ /\ build \in Builds
       /\ \E k \in Kinds, sh \in IterShapes : grid = RootGrid(k, sh[1], sh[2])
       /\ view = NoView /\ depth = 0 /\ offs = NoOffs
       /\ call = NoCall
       /\ ret = Returned({})
       /\ prev = grid
       /\ nops = 0
       /\ done = FALSE
       /\ it = Rows_over(grid)
       /\ out = <<>>

\* next() / next_back() on a Rows; r is what the call produced
LastRowsStep(end, r) ==
    /\ ~done
    /\ it.of = "Rows"
    /\ nops < grid.height + MaxOps
    /\ call' = CallOf(end, 0, 0, 0)
    /\ it' = r.it
    /\ ret' = Returned(r.ret)
    /\ out' = IF r.ret = {} THEN out
              ELSE Append(out, <<end, CHOOSE hd \in r.ret : TRUE>>)
    /\ prev' = grid
    /\ nops' = nops + 1
    /\ UNCHANGED <<build, grid, viewVars, done>>

LastRowsNext ==
    /\ it.of = "Rows"
    /\ LastRowsStep("next", Rows_next(it))

LastRowsNextBack ==
    /\ it.of = "Rows"
    /\ LastRowsStep("next_back", Rows_next_back(it))

\* last() consumes the cursor: nothing is called after it
LastOf ==
    /\ ~done
    /\ call' = CallOf("last", 0, 0, 0)
    /\ ret' = Returned(Cursor_last(grid, it))
    /\ prev' = grid
    /\ done' = TRUE
    /\ UNCHANGED <<build, grid, viewVars, nops, iterVars>>

NextLast ==
    \/ EndsLineNext
    \/ EndsLineNextBack
    \/ EndsRowsNext
    \/ EndsRowsNextBack
    \/ LastRowsNext
    \/ LastRowsNextBack
    \/ LastOf

SpecLast == InitLast /\ [][NextLast]_vars

(***************************************************************************)
(* Properties of the cell operations (checked under Spec).                 *)
(***************************************************************************)
InRange(g, x, y) == x < g.width /\ y < g.height
\* the cell (x, y) of a grid whose store is row-major
Cell(g, x, y) == g.store[y * g.width + x + 1]

\* C1: get and get_mut return None, without panicking, whenever
\* x >= width or y >= height, and Some whenever x < width and y < height.
C1_GetNoneIffOutOfRange ==
    call.op \in {"get", "get_mut"} =>
        /\ ~ret.panicked
        /\ (ret.val = {}) <=> ~InRange(prev, call.x, call.y)

C3_SetOutOfRangeWritesNothing ==
    (call.op = "set" /\ ~InRange(prev, call.x, call.y)) =>
        /\ ret = Returned({})
        /\ grid = prev

(***************************************************************************)
(* Properties of views (checked under SpecView).                           *)
(***************************************************************************)
\* C4: get(i, j) on a view, at any nesting depth, is the root's get at the
\* summed offsets plus (i, j) when i < w and j < h, and None otherwise.
C4_ViewGetIsRootGet ==
    call.op = "view_get" =>
        ret = Returned(IF call.x < offs.w /\ call.y < offs.h
                       THEN Grid_get(grid, wrapping_add(offs.x, call.x),
                                           wrapping_add(offs.y, call.y))
                       ELSE {})

\* a cell is read through a view nested three deep, off the root's origin
C4_Witness ==
    /\ call.op = "view_get" /\ depth = 3
    /\ offs.x = 2 /\ offs.y = 1
    /\ ret.val # {} /\ ~ret.panicked

\* C5: try_view / try_view_mut return None exactly when x + w > width() or
\* y + h > height() of the receiver and Some(view of size w x h) otherwise;
\* view / view_mut panic in exactly that condition.
C5_TryViewNoneIffNotContained ==
    /\ call.op \in {"try_view", "try_view_mut"} =>
          /\ ~ret.panicked
          /\ (ret.val = {}) <=> ~call.fits
          /\ \A v \in ret.val : v.w = call.w /\ v.h = call.h
    /\ call.op \in {"view", "view_mut"} => (ret.panicked <=> ~call.fits)

\* C6: every view satisfies root_x() + width() <= root.width() and
\* root_y() + height() <= root.height().
C6_ViewInsideRoot ==
    view.live => /\ view.x + view.w <= grid.width
                 /\ view.y + view.h <= grid.height

\* the root rectangle of the view asked for
InRect(cx, cy) ==
    /\ offs.x <= cx /\ cx < offs.x + offs.w
    /\ offs.y <= cy /\ cy < offs.y + offs.h

\* C7: after view_mut(x, y, w, h).fill(v) every root cell inside the view's
\* rectangle holds v and every root cell outside it keeps its value; a
\* set(i, j, v) through the view changes only the root cell (x + i, y + j).
C7_ViewWritesStayInRect ==
    /\ call.op = "view_fill" =>
          /\ ~ret.panicked
          /\ \A cx \in 0 .. grid.width - 1, cy \in 0 .. grid.height - 1 :
                 Cell(grid, cx, cy) = IF InRect(cx, cy) THEN call.v ELSE Cell(prev, cx, cy)
    /\ call.op = "view_set" =>
          /\ ~ret.panicked
          /\ \A cx \in 0 .. grid.width - 1, cy \in 0 .. grid.height - 1 :
                 Cell(grid, cx, cy) =
                     IF /\ call.x < offs.w /\ call.y < offs.h
                        /\ cx = offs.x + call.x /\ cy = offs.y + call.y
                     THEN call.v ELSE Cell(prev, cx, cy)

(***************************************************************************)
(* Properties of construction (checked under SpecCtor).                    *)
(***************************************************************************)
\* C8: with_store(width, height, store) panics unless
\* store.len() == width * height (also when width * height overflows usize);
\* when it succeeds the grid has the given width and height.
C8_WithStoreChecksLength ==
    call.op = "with_store" =>
        /\ ret.panicked <=> (call.v # call.x * call.y)
        /\ ~ret.panicked => /\ grid.width = call.x /\ grid.height = call.y
                            /\ Len(grid.store) = call.v

\* width = 3, height = 3 with a buffer of length 8 fails
C8_Witness ==
    /\ call.op = "with_store" /\ call.x = TestW /\ call.y = TestH
    /\ call.v = TestW * TestH - 1
    /\ ret.panicked /\ grid = NoGrid

\* C9: every GridBuf obtained through the API satisfies
\* store.len() == width * height, also after set and fill.
C9_StoreLenIsArea ==
    grid.kind = "buf" => Len(grid.store) = grid.width * grid.height

(***************************************************************************)
(* Properties of the whole-grid iterator (checked under SpecIter).         *)
(***************************************************************************)
\* the k-th item (k = 1, 2, ...) of a row-major enumeration of g
RowMajor(g, k) ==
    <<Cell(g, (k - 1) % g.width, (k - 1) \div g.width),
      (k - 1) % g.width, (k - 1) \div g.width>>

RECURSIVE Remaining(_, _)
Remaining(g, i) ==
    IF GridIter_next(g, i).ret = {} THEN 0
    ELSE 1 + Remaining(g, GridIter_next(g, i).it)

\* C11: at every point of a whole-grid iteration, len() (and size_hint(),
\* count()) is the number of items the remaining next() calls yield.
C11_LenIsRemaining ==
    call.op = "len" => ret = Returned({Remaining(grid, it)})

(***************************************************************************)
(* Properties of the row and column iterators (checked under SpecLine).    *)
(***************************************************************************)
\* the length of the line iterated, and its element at index k
LineLength == IF it.of = "row" THEN grid.width ELSE grid.height
LineCell(k) == IF it.of = "row" THEN Cell(grid, k, it.y) ELSE Cell(grid, it.x, k)
Fronts == SelectSeq(out, LAMBDA e : e[1] = "next")
Backs == SelectSeq(out, LAMBDA e : e[1] = "next_back")

HandleOps == {"handle_get_mut", "handle_iter_mut", "handle_fill"}

\* C13: the Rows handed out by rows_mut() have pairwise different indices,
\* and a get_mut / iter_mut / fill through the Row with index y reaches
\* exactly the cells (x, y) with x < width: get_mut(x) is Some exactly when
\* x < width, and no cell of another row is written.
C13_RowsDoNotOverlap ==
    it.of = "rows" =>
        /\ \A m, n \in 1 .. Len(out) : m # n => out[m][2].index # out[n][2].index
        /\ call.op \in HandleOps =>
               \A cx \in 0 .. grid.width - 1, cy \in 0 .. grid.height - 1 :
                   cy # call.x => Cell(grid, cx, cy) = Cell(prev, cx, cy)
        /\ call.op = "handle_get_mut" =>
               (ret.val # {}) <=> (call.y < grid.width)

(***************************************************************************)
(* Properties of the raw rows (checked under SpecSlice).                   *)
(***************************************************************************)
\* C14: on a GridBuf or a 2D array, row_slice(y) and row_slice_mut(y)
\* return Some exactly when y < height, without panicking; the slice then
\* has length width and its k-th element is the cell (k, y).
C14_RowSliceIffRowExists ==
    call.op \in {"row_slice", "row_slice_mut"} =>
        /\ ~ret.panicked
        /\ (ret.val # {}) <=> (call.y < grid.height)
        /\ \A s \in ret.val :
               SliceElems(grid, s) = [k \in 1 .. grid.width |-> Cell(grid, k - 1, call.y)]

(***************************************************************************)
(* Properties of the raw rows of a view (checked under SpecView).          *)
(***************************************************************************)
\* C15: for a view of size w x h at offset (x, y) over a GridBuf or a 2D
\* array, row_slice(j) and row_slice_mut(j) return, for j < h, Some slice of
\* length w whose k-th element is the root cell (x + k, y + j), and None
\* for j >= h; they do not panic.
C15_ViewRowSlice ==
    call.op \in {"view_row_slice", "view_row_slice_mut"} =>
        /\ ~ret.panicked
        /\ (ret.val # {}) <=> (call.y < view.h)
        /\ \A s \in ret.val :
               /\ s.len = view.w
               /\ \A k \in 0 .. view.w - 1 :
                      SliceElems(grid, s)[k + 1] = Cell(grid, view.x + k, view.y + call.y)

(***************************************************************************)
(* Properties of copying (checked under SpecCopy).                         *)
(***************************************************************************)
RowCopies == {"row_clone_from", "row_copy_from"}
ColCopies == {"col_clone_from", "col_copy_from"}

DestGet(x, y) ==
    IF view.live THEN View_get(build, grid, view, x, y) ELSE Returned(Grid_get(grid, x, y))

\* C17: draw_cloned / draw_copied panic, with no cell written, unless the
\* source has the destination's width and height; otherwise they return,
\* dst.get(x, y) is src.get(x, y) for every cell of the destination, and the
\* root cells outside a destination view are unchanged.
C17_DrawChecksSize ==
    call.op \in {"draw_cloned", "draw_copied"} =>
        IF call.w # Recv_width \/ call.h # Recv_height
        THEN ret.panicked /\ grid = prev
        ELSE /\ ~ret.panicked
             /\ \A x \in 0 .. call.w - 1, y \in 0 .. call.h - 1 :
                    DestGet(x, y) = Returned(Grid_get(out[1], x, y))
             /\ \A cx \in 0 .. grid.width - 1, cy \in 0 .. grid.height - 1 :
                    (view.live /\ ~InRect(cx, cy)) => Cell(grid, cx, cy) = Cell(prev, cx, cy)

(***************************************************************************)
(* Properties of snapshots (checked under SpecSnap).                       *)
(***************************************************************************)
\* the cells of the receiver, listed row by row
RecvCells ==
    [k \in 1 .. Recv_width * Recv_height |->
        CHOOSE e \in Of_get(build, grid, view, (k - 1) % Recv_width,
                            (k - 1) \div Recv_width).val : TRUE]

\* C18: for a dense grid, a 2D array or a view g of any shape, zero width or
\* height included, g.to_vec_grid() has g's width and height and equal
\* cells, its to_store() buffer lists g's cells in row-major order, and
\* GridBuf::with_store(width, height, that buffer) is again equal to g cell
\* by cell.
C18_SnapshotRoundTrip ==
    call.op = "to_vec_grid" =>
        /\ ~ret.panicked
        /\ \A s \in ret.val :
               /\ s.width = Recv_width /\ s.height = Recv_height
               /\ \A x \in 0 .. Recv_width - 1, y \in 0 .. Recv_height - 1 :
                      Returned(GridBuf_get(s, x, y)) = Of_get(build, grid, view, x, y)
        /\ out[1] = RecvCells
        /\ ~out[2].panicked
        /\ \A r \in out[2].val :
               /\ r.width = Recv_width /\ r.height = Recv_height
               /\ \A x \in 0 .. Recv_width - 1, y \in 0 .. Recv_height - 1 :
                      Returned(GridBuf_get(r, x, y)) = Of_get(build, grid, view, x, y)

(***************************************************************************)
(* Properties of nested views (checked under SpecView).                    *)
(***************************************************************************)
ViewOps == {"try_view", "view", "try_view_mut", "view_mut"}
\* the last call was a view call that produced a view
ViewMade == call.op \in ViewOps /\ ~ret.panicked /\ ret.val # {}
\* the last call was a view call made on a view
OnView == call.op \in ViewOps /\ (IF ViewMade THEN depth >= 2 ELSE view.live)

\* C19: the view made by a chain of view calls reports as root_x() and
\* root_y() the sums of the offsets asked for along the chain and as width()
\* and height() the size asked for last, and a root grid reports root_x() =
\* root_y() = 0; a view call on a view is judged against the size of that
\* view, not of the root: a rectangle that fits the view is granted, one that
\* does not fit the view is refused even though the root has room for it.
C19_NestedViewsFlattened ==
    /\ view.live =>
          /\ Of_root_x(grid, view) = offs.x /\ Of_root_y(grid, view) = offs.y
          /\ Of_width(grid, view) = offs.w /\ Of_height(grid, view) = offs.h
    /\ ~view.live => Of_root_x(grid, view) = 0 /\ Of_root_y(grid, view) = 0
    /\ ViewMade => offs.w = call.w /\ offs.h = call.h
    /\ OnView =>
          /\ call.fits => ViewMade
          /\ (~call.fits /\ call.x + call.w <= grid.width
                         /\ call.y + call.h <= grid.height) => ~ViewMade

\* a view of a view, both off their parent's origin in x and in y
C19_Witness ==
    /\ call.op = "view" /\ ViewMade /\ depth = 2
    /\ call.x = 1 /\ call.y = 1
    /\ Of_root_x(grid, view) = 2 /\ Of_root_y(grid, view) = 2

(***************************************************************************)
(* Properties of rows() and cols() (checked under SpecRows).               *)
(***************************************************************************)
\* how many Rows rows() has to yield (Cols, for cols())
HandleCount == IF it.of = "rows" THEN grid.height ELSE grid.width
\* the handles yielded by next(), and those yielded by next_back(), in order
FrontHandles == SelectSeq(out, LAMBDA e : e[1] = "next")
BackHandles == SelectSeq(out, LAMBDA e : e[1] = "next_back")

\* C20: rows() yields Rows with index() 0, 1, ..., height-1 from the front
\* and height-1, ..., 0 from the back, its len() is height at the start and
\* every Row has len() = width; cols() likewise yields Cols with indices
\* 0 .. width, each of len() = height; try_row(y) / try_col(x) are None
\* exactly when y >= height / x >= width, and row(y) / col(x) panic in exactly
\* that case.
C20_RowsAndColsInOrder ==
    /\ \A k \in 1 .. Len(FrontHandles) : FrontHandles[k][2].index = k - 1
    /\ \A k \in 1 .. Len(BackHandles) : BackHandles[k][2].index = HandleCount - k
    /\ \A k \in 1 .. Len(out) :
           IF it.of = "rows"
           THEN out[k][2].of = "row" /\ Handle_len(grid, out[k][2]) = grid.width
           ELSE out[k][2].of = "col" /\ Handle_len(grid, out[k][2]) = grid.height
    /\ (call.op \in {"next", "next_back"} /\ ret.val = {}) => Len(out) = HandleCount
    /\ (call.op = "len" /\ nops = 0) => ret = Returned({HandleCount})
    /\ call.op = "try_row" =>
           /\ ~ret.panicked
           /\ (ret.val = {}) <=> (call.x >= grid.height)
           /\ \A hd \in ret.val : hd.of = "row" /\ hd.index = call.x
    /\ call.op = "try_col" =>
           /\ ~ret.panicked
           /\ (ret.val = {}) <=> (call.x >= grid.width)
           /\ \A hd \in ret.val : hd.of = "col" /\ hd.index = call.x
    /\ call.op = "row" =>
           /\ ret.panicked <=> (call.x >= grid.height)
           /\ \A hd \in ret.val : hd.of = "row" /\ hd.index = call.x
    /\ call.op = "col" =>
           /\ ret.panicked <=> (call.x >= grid.width)
           /\ \A hd \in ret.val : hd.of = "col" /\ hd.index = call.x

\* cols() of a grid three wide is emptied from both ends, then asked again
C20_Witness ==
    /\ it.of = "cols" /\ grid.width = TestW
    /\ Len(out) = TestW
    /\ out[1][1] = "next" /\ out[2][1] = "next_back" /\ out[3][1] = "next"
    /\ call.op = "next" /\ ret.val = {}

(***************************************************************************)
(* Properties of the index arithmetic (checked under SpecWord).            *)
(***************************************************************************)
\* C21: on a GridBuf, get and get_mut return None, without panicking,
\* whenever y * width + x exceeds the largest usize, and row_slice and
\* row_slice_mut return None, without panicking, whenever y * width + width
\* does.
C21_OverflowIsNotFound ==
    grid.kind = "buf" =>
        /\ (call.op \in {"get", "get_mut"}
                /\ call.y * grid.width + call.x > UsizeMax) => ret = Returned({})
        /\ (call.op \in {"row_slice", "row_slice_mut"}
                /\ call.y * grid.width + grid.width > UsizeMax) => ret = Returned({})

(***************************************************************************)
(* Properties of flip_x (checked under SpecFlip).                          *)
(***************************************************************************)
\* C22: after flip_x on a VecGrid or a ConstGrid the cell (x, y) holds the
\* value that was at (width - 1 - x, y) before the call, for every
\* x < width and y < height.
C22_FlipXMirrorsRows ==
    call.op = "flip_x" =>
        \A x \in 0 .. grid.width - 1, y \in 0 .. grid.height - 1 :
            Cell(grid, x, y) = Cell(prev, grid.width - 1 - x, y)

(***************************************************************************)
(* Properties of clone_rect (checked under SpecRect).                      *)
(***************************************************************************)
\* the source cell that belongs at the destination cell (cx, cy), if any:
\* (rect.x + i, rect.y + j) for (cx, cy) = (dest.x + i, dest.y + j), when it
\* is a cell of the rectangle and of the source
RectSource(cx, cy) ==
    LET sg == out[1]
        rect == out[2]
        i == cx - call.x
        j == cy - call.y
    IN  IF /\ 0 <= i /\ i < rect.w /\ 0 <= j /\ j < rect.h
           /\ 0 <= rect.x + i /\ rect.x + i < sg.width
           /\ 0 <= rect.y + j /\ rect.y + j < sg.height
        THEN {Cell(sg, rect.x + i, rect.y + j)}
        ELSE {}

\* C23: after clone_rect(src, rect, dest) the destination cell
\* (dest.x + i, dest.y + j) holds the source cell (rect.x + i, rect.y + j)
\* for every (i, j) of the rectangle whose source cell lies in src and whose
\* destination cell lies in the destination; every other destination cell is
\* unchanged.
C23_CloneRectPlacesAtDest ==
    call.op = "clone_rect" =>
        \A cx \in 0 .. grid.width - 1, cy \in 0 .. grid.height - 1 :
            Cell(grid, cx, cy) = IF RectSource(cx, cy) = {} THEN Cell(prev, cx, cy)
                                 ELSE CHOOSE e \in RectSource(cx, cy) : TRUE

(***************************************************************************)
(* Properties of SparseGrid (checked under SpecSparse).                    *)
(***************************************************************************)
\* the positions assigned so far, and the value set last at a position
Assigned == {<<out[k][1], out[k][2]>> : k \in 1 .. Len(out)}
LastSet(x, y) ==
    LET ks == {k \in 1 .. Len(out) : out[k][1] = x /\ out[k][2] = y}
    IN  out[CHOOSE k \in ks : \A j \in ks : j <= k][3]
LargestX == CHOOSE x \in {p[1] : p \in Assigned} : \A p \in Assigned : p[1] <= x
LargestY == CHOOSE y \in {p[2] : p \in Assigned} : \A p \in Assigned : p[2] <= y
\* the assigned cells as <<x, y, value>>, row by row
AssignedRowMajor ==
    LET w == LargestX + 1
        all == [k \in 1 .. w * (LargestY + 1) |-> <<(k - 1) % w, (k - 1) \div w>>]
        set == SelectSeq(all, LAMBDA p : p \in Assigned)
    IN  [k \in 1 .. Len(set) |-> <<set[k][1], set[k][2], LastSet(set[k][1], set[k][2])>>]

\* C24: after any sequence of set((x, y), v) on SparseGrid::default(),
\* get((x, y)) is Some of the value set last at (x, y) and None for a
\* position never set, width() is 1 + the largest x set and height() 1 + the
\* largest y set, and iteration yields exactly the assigned cells, row by row.
C24_SparseGridKeepsWhatWasSet ==
    /\ ~ret.panicked
    /\ call.op = "sparse_get" =>
           ret.val = IF <<call.x, call.y>> \in Assigned
                     THEN {LastSet(call.x, call.y)} ELSE {}
    /\ out # <<>> =>
           /\ SparseGrid_width(grid) = 1 + LargestX
           /\ SparseGrid_height(grid) = 1 + LargestY
    /\ call.op = "sparse_iter" =>
           it = IF out = <<>> THEN <<>> ELSE AssignedRowMajor

(***************************************************************************)
(* Properties of the raw-row fast path (checked under SpecPath).           *)
(***************************************************************************)
PathOps ==
    {"row_fill", "row_fill_with", "row_clone_from", "row_copy_from",
     "fill", "fill_with", "draw_cloned", "draw_copied"}
\* a grid as an implementor that offers raw rows (r) or declines
WithRaw(g, r) == IF r THEN Offering(g) ELSE Declining(g)
\* what the last operation does when the destination offers raw rows (dr)
\* or declines, and the source offers them (sr) or declines
PathResult(dr, sr) ==
    LET g  == WithRaw(prev, dr)
        sg == IF out = <<>> THEN NoGrid ELSE WithRaw(out[1], sr)
    IN  CASE call.op = "row_fill" -> Row_fill(build, g, view, call.y, call.v)
          [] call.op = "row_fill_with" -> Row_fill_with(build, g, view, call.y, 0)
          [] call.op = "row_clone_from" -> Row_clone_from(build, g, view, call.y, sg, out[2])
          [] call.op = "row_copy_from" -> Row_copy_from(build, g, view, call.y, sg, out[2])
          [] call.op = "fill" -> GridMut_fill(build, g, view, call.v)
          [] call.op = "fill_with" -> GridMut_fill_with(build, g, view)
          [] call.op = "draw_cloned" -> GridMut_draw_cloned(build, g, view, sg)
          [] call.op = "draw_copied" -> GridMut_draw_copied(build, g, view, sg)

\* C25: for Row::fill, fill_with, clone_from and copy_from and for
\* GridMut::fill, fill_with, draw_cloned and draw_copied, the contents of the
\* destination after the call (and whether the call panics) are the same in
\* all four combinations of the destination's row_slice_mut and the source's
\* row_slice returning Some or None.
C25_RawRowsChangeNothing ==
    call.op \in PathOps =>
        \A dr \in BOOLEAN, sr \in BOOLEAN :
            /\ PathResult(dr, sr).grid.store = grid.store
            /\ PathResult(dr, sr).panicked = ret.panicked

\* a 2 x 2 source is drawn onto the 2 x 2 view at (1, 1) of a destination
\* that declines raw rows, from a source that offers them
C25_Witness ==
    /\ call.op = "draw_cloned" /\ ~ret.panicked
    /\ view.live /\ view.x = 1 /\ view.y = 1 /\ view.w = 2 /\ view.h = 2
    /\ Declines(prev) /\ ~Declines(out[1])
    /\ grid.store # prev.store

\* the cells of the receiver of the last call, row by row, as they are after
\* it; <<>> stands for a cell the receiver has not
RecvRowMajor ==
    [k \in 1 .. Recv_width * Recv_height |->
        LET c == Of_get(build, grid, view, (k - 1) % Recv_width, (k - 1) \div Recv_width)
        IN  IF c.panicked \/ c.val = {} THEN <<>> ELSE CHOOSE e \in c.val : TRUE]

\* C26: GridMut::fill_with(f) and VecGrid::new_with(width, height, f) call
\* the generator exactly width * height times and place the k-th value
\* generated (k counted from 0) in cell (k mod width, k div width);
\* fill(v) leaves every cell equal to v.
C26_GeneratedRowMajor ==
    /\ call.op = "fill_with" =>
           /\ ~ret.panicked
           /\ out[2] = Recv_width * Recv_height
           /\ RecvRowMajor = [k \in 1 .. Recv_width * Recv_height |-> Gen(k - 1)]
    /\ (call.op = "new_with" /\ ~ret.panicked) =>
           /\ grid.width = call.x /\ grid.height = call.y
           /\ Len(grid.store) = call.x * call.y
           /\ RecvRowMajor = [k \in 1 .. call.x * call.y |-> k - 1]
    /\ call.op = "fill" =>
           /\ ~ret.panicked
           /\ RecvRowMajor = [k \in 1 .. Recv_width * Recv_height |-> call.v]

(***************************************************************************)
(* Properties of the double-ended cursors (checked under SpecEnds).        *)
(***************************************************************************)
\* the low and the high bound of the cursor
EndsLow == IF it.of \in {"row", "cols"} THEN it.x ELSE it.y
EndsHigh == IF it.of \in {"row", "cols"} THEN it.r ELSE it.b
\* next(), next_back() and len() of the cursor i, whichever of the four it is
Ends_next(g, i) ==
    CASE i.of = "row" -> RowIter_next(g, i)
      [] i.of = "col" -> ColIter_next(g, i)
      [] i.of = "rows" -> RowsIter_next(i)
      [] i.of = "cols" -> ColsIter_next(i)
Ends_next_back(g, i) ==
    CASE i.of = "row" -> RowIter_next_back(g, i)
      [] i.of = "col" -> ColIter_next_back(g, i)
      [] i.of = "rows" -> RowsIter_next_back(i)
      [] i.of = "cols" -> ColsIter_next_back(i)
Ends_len(bld, i) ==
    CASE i.of = "row" -> RowIter_len(bld, i)
      [] i.of = "col" -> ColIter_len(bld, i)
      [] i.of = "rows" -> RowsIter_len(bld, i)
      [] i.of = "cols" -> ColsIter_len(bld, i)
\* the number of items repeated next() calls yield from the cursor i on
RECURSIVE StillToYield(_, _)
StillToYield(g, i) ==
    LET r == Ends_next(g, i)
    IN  IF r.ret = {} THEN 0 ELSE 1 + StillToYield(g, r.it)

C28_RowIterMutYieldsItsRow ==
    (it.of = "rows" /\ grid.kind = "buf") =>
        /\ \A n \in 1 .. Len(out) :
               Row_iter_mut_slots(grid, out[n][2], 0) =
                   [k \in 1 .. grid.width |-> out[n][2].index * grid.width + (k - 1)]
        /\ call.op = "handle_iter_mut" =>
               \A cx \in 0 .. grid.width - 1, cy \in 0 .. grid.height - 1 :
                   Cell(grid, cx, cy) = IF cy = call.x THEN call.v ELSE Cell(prev, cx, cy)

(***************************************************************************)
(* Properties of last() (checked under SpecLast).                          *)
(***************************************************************************)
\* next() of the cursor i, whichever of the five it is
Cursor_next(g, i) == IF i.of = "Rows" THEN Rows_next(i) ELSE Ends_next(g, i)
\* the item that repeated next() calls yield last from the cursor i on,
\* seen is the one yielded before (none: {})
RECURSIVE LastByNext(_, _, _)
LastByNext(g, i, seen) ==
    LET r == Cursor_next(g, i)
    IN  IF r.ret = {} THEN seen ELSE LastByNext(g, r.it, r.ret)

\* C29: in every state of a rows / cols / row / column iterator, last()
\* returns the item that repeated next() calls would yield last, and None
\* when the iterator is exhausted.
C29_LastAgreesWithNext ==
    call.op = "last" => ret = Returned(LastByNext(grid, it, {}))

(***************************************************************************)
(* Properties of the view calls on all machine integers (checked under     *)
(* SpecView).                                                               *)
(***************************************************************************)
\* C30: try_view and try_view_mut never panic and never return a view that
\* reaches beyond the root, whatever usize arguments they get; when x + w or
\* y + h exceeds the largest usize they return None.
C30_TryViewSurvivesOverflow ==
    call.op \in {"try_view", "try_view_mut"} =>
        /\ ~ret.panicked
        /\ \A v \in ret.val : /\ v.x + v.w <= grid.width
                              /\ v.y + v.h <= grid.height
        /\ (call.x + call.w > UsizeMax \/ call.y + call.h > UsizeMax) => ret.val = {}

====
